---------------------------- MODULE Spec2Model ----------------------------
(***************************************************************************)
(* A model of pyTivo's photo plugin (directory listing caches, sorted      *)
(* lists, thumbnails), its video plugin's send_file, and the bounded       *)
(* caches they share between request threads.                              *)
(*                                                                         *)
(* Paths and names are sequences of one-character strings, so that the     *)
(* code's str.startswith and its name ordering are computed, not assumed.  *)
(***************************************************************************)
EXTENDS Integers, Sequences, FiniteSets, TLC

(***************************************************************************)
(* Bounds of the model.                                                    *)
(***************************************************************************)
NThreads == 2      \* request threads of the concurrent specification
MaxLists == 6      \* SortListLock objects alive at once
MaxCalls == 2      \* get_files calls of the concurrent specification
MaxRaceCalls == 3  \* get_files calls where a cached list is read and dropped at once
MaxSeqCalls == 3   \* get_files calls of the sequential specification
MaxTouch == 2      \* changes made to the filesystem
MaxSortCalls == 3  \* get_files calls of the sorting specification

VARIABLES
    mode,        \* which part of the program this behaviour exercises
    now,         \* time.time(), a logical clock
    fsFiles,     \* the files each directory holds
    fsMtime,     \* os.path.getmtime of each directory
    dc,          \* Photo.dir_cache
    rc,          \* Photo.recurse_cache
    dcLock,      \* the thread holding dir_cache's RLock, 0 when free
    rcLock,      \* the thread holding recurse_cache's RLock, 0 when free
    lists,       \* the SortListLock objects, by identity
    rng,         \* the state of the process-wide random generator
    randOwner,   \* the thread holding Plugin.random_lock, 0 when free
    th,          \* each request thread's position and locals in get_files
    ncalls,      \* get_files calls started so far
    ntouch,      \* changes made to the filesystem so far
    calls,       \* history: the last two completed get_files calls
    rcStale,     \* history: keys of rc below which a directory changed since the put
    mc,          \* Photo.media_data_cache
    cop,         \* history: the last operation made on a cache directly
    cuse,        \* history: when each key of that cache was last put or read
    vreq,        \* the video request being answered
    wire,        \* what video send_file wrote to the client, in order
    vlog,        \* what video send_file logged, in order
    preq,        \* the photo request being answered
    pout,        \* what photo send_file did for it
    calc,        \* the last call of a function on its own: its arguments and result
    cont,        \* the photo QueryContainer request being answered, and its answer
    tv,          \* Video.tvbus_cache and the threads inside get_details_xml
    hs           \* the HTTP server: beacon, TIVOS, and the last request with its answer

(***************************************************************************)
(* Strings as sequences of characters.                                     *)
(***************************************************************************)
Ord(c) ==
    CASE c = "/" -> 47
      [] c = "0" -> 48
      [] c = "a" -> 97
      [] c = "b" -> 98
      [] c = "c" -> 99
      [] c = "p" -> 112
      [] c = "s" -> 115
      [] c = "t" -> 116
      [] c = "z" -> 122
      [] c = "x" -> 120
      [] OTHER -> 63

\* str.startswith: s.startswith(p)
StartsWith(s, p) ==
    /\ Len(p) <= Len(s)
    /\ SubSeq(s, 1, Len(p)) = p

\* Python's < on str
LexLess(a, b) ==
    \E i \in 1..(Len(a) + 1) :
        /\ \A j \in 1..(i - 1) : j <= Len(b) /\ a[j] = b[j]
        /\ \/ i = Len(a) + 1 /\ Len(b) >= i
           \/ i <= Len(a) /\ i <= Len(b) /\ Ord(a[i]) < Ord(b[i])

\* str.replace(old, new, 1)
ReplaceFirst(s, old, new) ==
    LET hits == { i \in 1..(Len(s) - Len(old) + 1) : SubSeq(s, i, i + Len(old) - 1) = old }
    IN  IF hits = {} \/ old = <<>> THEN s
        ELSE LET i == CHOOSE h \in hits : \A g \in hits : h <= g
             IN  SubSeq(s, 1, i - 1) \o new \o SubSeq(s, i + Len(old), Len(s))

(***************************************************************************)
(* The filesystem: a share p with one subdirectory p/a.                    *)
(***************************************************************************)
P == << "p" >>
A == << "p", "/", "a" >>
Dirs == { P, A }
FileNames == { "0", "b" }
\* the files that may exist in each directory
FilesOf(d) == IF d = P THEN { "0", "b" } ELSE { "b" }
CName == << "c" >>          \* handler.cname, the share's name in URLs

SubDirs(d) == IF d = P THEN { A } ELSE {}

Join(d, f) == d \o << "/" >> \o << f >>

Last(s) == s[Len(s)]

\* FileData(name, isdir): the dates come from os.stat of the entry
FileData(name, isdir) ==
    [ name |-> name, isdir |-> isdir,
      cdate |-> IF Last(name) = "b" THEN 1 ELSE 2,
      mdate |-> IF Last(name) = "0" THEN 1 ELSE 2 ]

RECURSIVE SetToSeq(_)
SetToSeq(S) ==
    IF S = {} THEN << >>
    ELSE LET x == CHOOSE y \in S : \A z \in S : z = y \/ LexLess(z.name, y.name)
         IN  << x >> \o SetToSeq(S \ { x })

\* os.listdir(d), in the directory's own order (here: descending name)
ListDir(files, d) ==
    SetToSeq({ FileData(Join(d, f), FALSE) : f \in files[d] }
             \cup { FileData(s, TRUE) : s \in SubDirs(d) })

RECURSIVE WalkSeq(_, _, _)
WalkSeq(files, entries, recurse) ==
    IF entries = << >> THEN << >>
    ELSE LET e == Head(entries)
             rest == WalkSeq(files, Tail(entries), recurse)
         IN  IF recurse /\ e.isdir
             THEN WalkSeq(files, ListDir(files, e.name), recurse) \o rest
             ELSE << e >> \o rest

\* build_recursive_list(path, recurse, ImageFileFilter, "")
build_recursive_list(files, path, recurse) ==
    WalkSeq(files, ListDir(files, path), recurse)

(***************************************************************************)
(* LRUCache: entries in recency order, least recently used first.  Each    *)
(* entry records the time of its last put.                                 *)
(***************************************************************************)
CacheKeys(c) == [ i \in 1..Len(c) |-> c[i].key ]

CacheHas(c, k) == \E i \in 1..Len(c) : c[i].key = k

CacheIdx(c, k) == CHOOSE i \in 1..Len(c) : c[i].key = k

CacheObj(c, k) == c[CacheIdx(c, k)].obj

CacheMtime(c, k) == c[CacheIdx(c, k)].mtime

CacheDrop(c, i) == SubSeq(c, 1, i - 1) \o SubSeq(c, i + 1, Len(c))

\* __getitem__: the entry becomes the most recently used
CacheTouch(c, k) ==
    LET i == CacheIdx(c, k) IN CacheDrop(c, i) \o << c[i] >>

\* the eviction loop of __setitem__: while len >= size, pop the least recent
RECURSIVE CacheEvict(_, _)
CacheEvict(c, size) ==
    IF Len(c) >= size /\ Len(c) > 0 THEN CacheEvict(Tail(c), size) ELSE c

\* __setitem__
CachePut(c, size, k, obj, t) ==
    IF CacheHas(c, k)
    THEN CacheDrop(c, CacheIdx(c, k)) \o << [ key |-> k, obj |-> obj, mtime |-> t ] >>
    ELSE CacheEvict(c, size) \o << [ key |-> k, obj |-> obj, mtime |-> t ] >>

\* __delitem__
CacheDel(c, k) == CacheDrop(c, CacheIdx(c, k))

\* a dir_cache built one entry too large
DirCacheSizeWide == 10 + 1

\* media_data_cache = LockedLRUCache(300), recurse_cache = LockedLRUCache(5),
\* dir_cache = LockedLRUCache(10)
MediaCacheSize == 300
RecurseCacheSize == 5
DirCacheSize == 10

\* nothing done yet to the cache named
NoOp ==
    [ cache |-> "none", op |-> "none", key |-> 0, n |-> 0, maxkey |-> 0, wasNew |-> FALSE,
      lenBefore |-> 0, lenAfter |-> 0, evicted |-> {}, lru |-> 0 ]

NoVideoReq == [ active |-> FALSE, pc |-> "idle" ]

PhotoPaths == { "x.jpg", "y.jpg" }

\* no send_file yet; rall, rapp: per path, the Rotation parameters received
\* and those received by an accepted request while the path had an entry
\* (history)
NoPhotoReq ==
    [ active |-> FALSE, n |-> 0, rall |-> [ k \in PhotoPaths |-> 0 ],
      rapp |-> [ k \in PhotoPaths |-> 0 ] ]

NoCalc == [ fn |-> "none" ]

\* a thread outside get_details_xml
IdleDetails == [ pc |-> "idle", inop |-> FALSE, key |-> << >>, out |-> "none" ]

NoDetails == [ cache |-> << >>, th |-> [ t \in 1..NThreads |-> IdleDetails ], n |-> 0 ]

\* no HTTP request handled yet: TivoHTTPServer.__init__ leaves beacon None,
\* and pytivo.config.TIVOS holds no TiVo
NoHttpReq == [ method |-> "none", tsn |-> "", ip |-> << >>, allowed |-> << >>, found |-> FALSE,
               path |-> << >>, query |-> << >> ]
NoHttp == [ n |-> 0, beacon |-> FALSE, tivos |-> {}, tivosBefore |-> {}, req |-> NoHttpReq,
            authorized |-> FALSE, withBeacon |-> FALSE, trace |-> << >>, resp |-> << >>, raised |-> FALSE ]

NoCont ==
    [ pc |-> "idle", n |-> 0, attrs |-> {}, found |-> TRUE, status |-> 0,
      pre |-> [ dc |-> << >>, rc |-> << >>, mc |-> << >>, lists |-> << >>, ncalls |-> 0 ] ]

NoPhotoOut == [ status |-> "none", code |-> 0 ]


(***************************************************************************)
(* SortList / SortListLock objects.  Identity 0 is the placeholder         *)
(* SortListLock([]) that get_files starts from.                            *)
(***************************************************************************)
NoKey == << >>       \* SortList.sortby = None

\* owner is the thread holding the list's RLock; built keeps the files as the walk
\* returned them (history)
FreeList ==
    [ files |-> << >>, unsorted |-> TRUE, sortby |-> NoKey, last_start |-> 0, owner |-> 0,
      built |-> << >> ]

\* SortList(files)
NewList(files) ==
    [ files |-> files, unsorted |-> TRUE, sortby |-> NoKey, last_start |-> 0, owner |-> 0,
      built |-> files ]

ListIds == 1..MaxLists

ListOf(ls, id) == IF id = 0 THEN FreeList ELSE ls[id]

\* bool(filelist), as "if not filelist" reads it: a list with no files is false
ListTruth(l) == Len(l.files) > 0

Refs(dcv, rcv, thv) ==
    { dcv[i].obj : i \in 1..Len(dcv) } \cup { rcv[i].obj : i \in 1..Len(rcv) }
        \cup { thv[t].fl : t \in DOMAIN thv }

\* objects no cache and no thread refers to are gone
Sweep(ls, dcv, rcv, thv) ==
    [ i \in ListIds |-> IF i \in Refs(dcv, rcv, thv) THEN ls[i] ELSE FreeList ]

FreshId == CHOOSE i \in ListIds : i \notin Refs(dc, rc, th) /\ \A j \in ListIds : j < i => j \in Refs(dc, rc, th)

(***************************************************************************)
(* Sorting, shuffling, filtering, paginating.                              *)
(***************************************************************************)
Less(kind, x, y) ==
    CASE kind = "name"  -> LexLess(x.name, y.name)
      [] kind = "isdir" -> x.isdir /\ ~y.isdir
      [] kind = "cdate" -> x.cdate < y.cdate
      [] kind = "mdate" -> x.mdate < y.mdate

InsertStable(kind, x, s) ==
    LET after == { i \in 1..Len(s) : Less(kind, x, s[i]) }
        i == IF after = {} THEN Len(s) + 1 ELSE CHOOSE a \in after : \A b \in after : a <= b
    IN  SubSeq(s, 1, i - 1) \o << x >> \o SubSeq(s, i, Len(s))

\* list.sort(key=...): a stable sort
RECURSIVE StableSort(_, _)
StableSort(kind, s) ==
    IF s = << >> THEN << >>
    ELSE InsertStable(kind, s[Len(s)], StableSort(kind, SubSeq(s, 1, Len(s) - 1)))

\* the two sorts of Type made in the other order
SortFilesNameLast(order, files) ==
    IF order = "Type" THEN StableSort("name", StableSort("isdir", files))
    ELSE StableSort("name", files)

\* the non-Random branch of the sort
SortFiles(order, files) ==
    CASE order = "Type"           -> StableSort("isdir", StableSort("name", files))
      [] order = "CaptureDate"    -> StableSort("cdate", files)
      [] order = "LastChangeDate" -> StableSort("mdate", files)
      [] OTHER                    -> StableSort("name", files)

\* the generator behind random.seed / random.shuffle
RECURSIVE SumOrd(_)
SumOrd(s) == IF s = << >> THEN 0 ELSE Ord(Head(s)) + SumOrd(Tail(s))

SeedState(seed) == SumOrd(seed) % 7

NextRng(r) == (r * 3 + 1) % 7

Swap(x, i, j) == [ x EXCEPT ![i] = x[j], ![j] = x[i] ]

\* random.shuffle: for i from the end down, swap x[i] with x[randbelow(i+1)]
RECURSIVE ShuffleFrom(_, _, _)
ShuffleFrom(x, i, r) ==
    IF i < 2 THEN [ files |-> x, rng |-> r ]
    ELSE ShuffleFrom(Swap(x, i, (r % i) + 1), i - 1, NextRng(r))

Shuffle(x, r) == ShuffleFrom(x, Len(x), r)

\* the memoized key: SortOrder, plus seed and start for Random
SortKey(q) ==
    IF q.sortorder = "Random" THEN << "Random" >> \o q.seed \o q.start
    ELSE << q.sortorder >>

\* start.replace(os.path.sep + handler.cname, local_base_path, 1)
StartPath(start) == ReplaceFirst(start, << "/" >> \o CName, P)

NameIdx(files, name) ==
    LET hits == { i \in 1..Len(files) : files[i].name = name }
    IN  IF hits = {} THEN 0 ELSE CHOOSE h \in hits : \A g \in hits : h <= g

\* the start item changes places with the first one
PinStartSwap(files, start) ==
    LET i == NameIdx(files, StartPath(start))
    IN  IF i = 0 THEN files ELSE Swap(files, 1, i)

\* the start item put in front and left where it was
PinStartNoPop(files, start) ==
    LET i == NameIdx(files, StartPath(start))
    IN  IF i = 0 THEN files ELSE << files[i] >> \o files

\* filenames.index(start); pop; insert(0, ...)
PinStart(files, start) ==
    LET i == NameIdx(files, StartPath(start))
    IN  IF i = 0 THEN files
        ELSE << files[i] >> \o SubSeq(files, 1, i - 1) \o SubSeq(files, i + 1, Len(files))

\* a filter that keeps directories whenever "image" is asked for
FilterFilesByImage(q, files) ==
    IF ~q.hasfilter \/ "image" \in q.filter THEN files
    ELSE SelectSeq(files, LAMBDA x : x.isdir)

\* "Filter it"
FilterFiles(q, files) ==
    IF ~q.hasfilter THEN files
    ELSE IF "folder" \notin q.filter THEN SelectSeq(files, LAMBDA x : ~x.isdir)
    ELSE IF "image" \notin q.filter THEN SelectSeq(files, LAMBDA x : x.isdir)
    ELSE files

\* Plugin.item_count: the page after the anchor, ItemCount long
item_count(q, files) ==
    IF Len(files) = 0 \/ q.count = 0
    THEN [ files |-> files, total |-> Len(files), start |-> 0 ]
    ELSE LET idx == IF q.anchor = << >> THEN 0 ELSE NameIdx(files, StartPath(q.anchor))
         IN  [ files |-> SubSeq(files, idx + 1, idx + q.count),
               total |-> Len(files), start |-> idx ]


(***************************************************************************)
(* Request threads running Photo.get_files.                                *)
(***************************************************************************)
Threads == 1..NThreads

\* an ItemCount that is not a number: item_count raises on it
BadCount == 0 - 1

NoQuery ==
    [ path |-> P, recurse |-> FALSE, sortorder |-> "Normal", seed |-> << >>, start |-> << >>,
      hasfilter |-> FALSE, filter |-> {}, count |-> 0, anchor |-> << >> ]

NoRes == [ files |-> << >>, total |-> 0, start |-> 0 ]

NoSnap == [ dcHas |-> FALSE, dcMtime |-> 0, dcObj |-> 0, rc |-> << >>, stale |-> {} ]

IdleThread ==
    [ pc |-> "idle", inop |-> FALSE, q |-> NoQuery, updated |-> 0, fl |-> 0, keys |-> << >>,
      found |-> FALSE, walked |-> FALSE, warn |-> FALSE, res |-> NoRes, pre |-> NoSnap,
      shuf |-> << >>, shufin |-> << >>, held |-> << >>, resort |-> FALSE, dirty |-> FALSE ]

\* what the history keeps of the caches: presence, put time and object per key
Snap(path) ==
    IF mode # "seq" THEN NoSnap
    ELSE [ dcHas |-> CacheHas(dc, path),
           dcMtime |-> IF CacheHas(dc, path) THEN CacheMtime(dc, path) ELSE 0,
           dcObj |-> IF CacheHas(dc, path) THEN CacheObj(dc, path) ELSE 0,
           rc |-> [ i \in 1..Len(rc) |-> [ key |-> rc[i].key, mtime |-> rc[i].mtime ] ],
           stale |-> rcStale ]

\* the cache operations of get_files, by position
OpPCs == { "dc_has", "dc_mtime", "dc_get", "rc_iter", "rc_mtime", "rc_del", "rc_has", "rc_get", "put" }

\* LockedLRUCache takes its lock in __setitem__ and __getitem__ only
LockedOps == { "dc_get", "rc_get", "put" }

OpCache(t) ==
    CASE th[t].pc \in { "dc_has", "dc_mtime", "dc_get" } -> "dc"
      [] th[t].pc \in { "rc_iter", "rc_mtime", "rc_del", "rc_has", "rc_get" } -> "rc"
      [] th[t].pc = "put" -> IF th[t].q.recurse THEN "rc" ELSE "dc"
      [] OTHER -> "none"

\* the cache whose operation thread t is executing, "none" outside one
InsideCache(t) == IF th[t].inop THEN OpCache(t) ELSE "none"

getVars == << dc, rc, dcLock, rcLock, lists, rng, randOwner, th, ncalls, calls, rcStale >>
fsVars == << now, fsFiles, fsMtime, ntouch >>
cacheVars == << mc, cop, cuse >>
videoVars == << vreq, wire, vlog >>
photoVars == << preq, pout >>
pureVars == << calc >>
containerVars == << cont >>
detailsVars == << tv >>
httpVars == << hs >>
auxVars == << cacheVars, videoVars, photoVars, pureVars, containerVars, detailsVars, httpVars >>

\* the locals of get_files at its first cache operation
Enter(q) ==
    [ IdleThread EXCEPT !.pc = IF q.recurse THEN "rc_has" ELSE "getmtime", !.q = q,
                        !.pre = Snap(q.path) ]

\* get_files is entered: path, Recurse, the placeholder list
Call(t, q) ==
    /\ th[t].pc = "idle"
    /\ ncalls < (CASE mode = "seq" -> MaxSeqCalls
                    [] mode = "sort" -> MaxSortCalls
                    [] mode = "race" -> MaxRaceCalls
                    [] OTHER -> MaxCalls)
    /\ th' = [ th EXCEPT ![t] = Enter(q) ]
    /\ ncalls' = ncalls + 1
    /\ UNCHANGED << mode, auxVars, fsVars, dc, rc, dcLock, rcLock, lists, rng, randOwner, calls, rcStale >>

\* updated = os.path.getmtime(path)
GetMtime(t) ==
    /\ th[t].pc = "getmtime"
    /\ th' = [ th EXCEPT ![t].updated = fsMtime[th[t].q.path], ![t].pc = "dc_has" ]
    /\ UNCHANGED << mode, auxVars, fsVars, dc, rc, dcLock, rcLock, lists, rng, randOwner, ncalls, calls, rcStale >>

\* an acquire that never waits
LockIgnored(lock, t) == TRUE

\* acquire() on a threading.RLock: free, or already held by the caller
LockFree(lock, t) == lock = 0 \/ lock = t

\* a cache operation begins; __getitem__ and __setitem__ first take the cache's lock
EnterOp(t) ==
    /\ th[t].pc \in OpPCs
    /\ ~th[t].inop
    /\ IF th[t].pc \in LockedOps
       THEN IF OpCache(t) = "dc"
            THEN LockFree(dcLock, t) /\ dcLock' = t /\ rcLock' = rcLock
            ELSE LockFree(rcLock, t) /\ rcLock' = t /\ dcLock' = dcLock
       ELSE UNCHANGED << dcLock, rcLock >>
    /\ th' = [ th EXCEPT ![t].inop = TRUE ]
    /\ UNCHANGED << mode, auxVars, fsVars, dc, rc, lists, rng, randOwner, ncalls, calls, rcStale >>

\* an uncaught exception ends the request where it stands
Raised(t) == [ th[t] EXCEPT !.pc = "raised", !.inop = FALSE ]

\* path in dc
DcHas(t) ==
    /\ th[t].pc = "dc_has" /\ th[t].inop
    /\ th' = [ th EXCEPT ![t].inop = FALSE, ![t].found = CacheHas(dc, th[t].q.path),
                         ![t].pc = IF CacheHas(dc, th[t].q.path) THEN "dc_mtime" ELSE "rc_iter" ]
    /\ UNCHANGED << mode, auxVars, fsVars, dc, rc, dcLock, rcLock, lists, rng, randOwner, ncalls, calls, rcStale >>

\* a hit needs a put fresher than the directory by one: an off-by-one staleness test
FreshLate(cached, updated) == cached + 1 >= updated

\* dc.mtime(path) >= updated
Fresh(cached, updated) == cached >= updated

\* path in dc and dc.mtime(path) >= updated: the second half
DcMtime(t) ==
    /\ th[t].pc = "dc_mtime" /\ th[t].inop
    /\ th' = [ th EXCEPT ![t] =
                 IF ~CacheHas(dc, th[t].q.path) THEN Raised(t)
                 ELSE [ th[t] EXCEPT !.inop = FALSE,
                          !.pc = IF Fresh(CacheMtime(dc, th[t].q.path), th[t].updated)
                                 THEN "dc_get" ELSE "rc_iter" ] ]
    /\ UNCHANGED << mode, auxVars, fsVars, dc, rc, dcLock, rcLock, lists, rng, randOwner, ncalls, calls, rcStale >>

\* filelist = dc[path]
DcGet(t) ==
    /\ th[t].pc = "dc_get" /\ th[t].inop
    /\ dcLock' = 0
    /\ IF ~CacheHas(dc, th[t].q.path)
       THEN /\ th' = [ th EXCEPT ![t] = Raised(t) ]
            /\ dc' = dc
       ELSE /\ th' = [ th EXCEPT ![t].inop = FALSE, ![t].fl = CacheObj(dc, th[t].q.path),
                                 ![t].pc = "rc_iter" ]
            /\ dc' = CacheTouch(dc, th[t].q.path)
    /\ UNCHANGED << mode, auxVars, fsVars, rc, rcLock, lists, rng, randOwner, ncalls, calls, rcStale >>

\* for p in rc: the iterator copies the keys
RcIter(t) ==
    /\ th[t].pc = "rc_iter" /\ th[t].inop
    /\ th' = [ th EXCEPT ![t].inop = FALSE, ![t].keys = CacheKeys(rc), ![t].pc = "rc_loop" ]
    /\ UNCHANGED << mode, auxVars, fsVars, dc, rc, dcLock, rcLock, lists, rng, randOwner, ncalls, calls, rcStale >>

\* the next p; path.startswith(p)
RcLoop(t) ==
    /\ th[t].pc = "rc_loop"
    /\ th' = [ th EXCEPT ![t] =
                 IF th[t].keys = << >> THEN [ th[t] EXCEPT !.pc = "truth" ]
                 ELSE IF StartsWith(th[t].q.path, Head(th[t].keys))
                      THEN [ th[t] EXCEPT !.pc = "rc_mtime" ]
                      ELSE [ th[t] EXCEPT !.keys = Tail(th[t].keys) ] ]
    /\ UNCHANGED << mode, auxVars, fsVars, dc, rc, dcLock, rcLock, lists, rng, randOwner, ncalls, calls, rcStale >>

\* rc.mtime(p) < updated
RcMtime(t) ==
    /\ th[t].pc = "rc_mtime" /\ th[t].inop
    /\ th' = [ th EXCEPT ![t] =
                 IF ~CacheHas(rc, Head(th[t].keys)) THEN Raised(t)
                 ELSE IF CacheMtime(rc, Head(th[t].keys)) < th[t].updated
                      THEN [ th[t] EXCEPT !.inop = FALSE, !.pc = "rc_del" ]
                      ELSE [ th[t] EXCEPT !.inop = FALSE, !.pc = "rc_loop", !.keys = Tail(th[t].keys) ] ]
    /\ UNCHANGED << mode, auxVars, fsVars, dc, rc, dcLock, rcLock, lists, rng, randOwner, ncalls, calls, rcStale >>

\* del rc[p]
RcDel(t) ==
    /\ th[t].pc = "rc_del" /\ th[t].inop
    /\ IF ~CacheHas(rc, Head(th[t].keys))
       THEN /\ th' = [ th EXCEPT ![t] = Raised(t) ]
            /\ UNCHANGED << rc, lists, rcStale >>
       ELSE /\ th' = [ th EXCEPT ![t].inop = FALSE, ![t].pc = "rc_loop", ![t].keys = Tail(th[t].keys) ]
            /\ rc' = CacheDel(rc, Head(th[t].keys))
            /\ lists' = Sweep(lists, dc, rc', th')
            /\ rcStale' = rcStale \ { Head(th[t].keys) }
    /\ UNCHANGED << mode, auxVars, fsVars, dc, dcLock, rcLock, rng, randOwner, ncalls, calls >>

\* path in rc
RcHas(t) ==
    /\ th[t].pc = "rc_has" /\ th[t].inop
    /\ th' = [ th EXCEPT ![t].inop = FALSE, ![t].found = CacheHas(rc, th[t].q.path),
                         ![t].pc = IF CacheHas(rc, th[t].q.path) THEN "rc_get" ELSE "truth" ]
    /\ UNCHANGED << mode, auxVars, fsVars, dc, rc, dcLock, rcLock, lists, rng, randOwner, ncalls, calls, rcStale >>

\* filelist = rc[path]
RcGet(t) ==
    /\ th[t].pc = "rc_get" /\ th[t].inop
    /\ rcLock' = 0
    /\ IF ~CacheHas(rc, th[t].q.path)
       THEN /\ th' = [ th EXCEPT ![t] = Raised(t) ]
            /\ rc' = rc
       ELSE /\ th' = [ th EXCEPT ![t].inop = FALSE, ![t].fl = CacheObj(rc, th[t].q.path),
                                 ![t].pc = "truth" ]
            /\ rc' = CacheTouch(rc, th[t].q.path)
    /\ UNCHANGED << mode, auxVars, fsVars, dc, dcLock, lists, rng, randOwner, ncalls, calls, rcStale >>

\* if not filelist
Truth(t) ==
    /\ th[t].pc = "truth"
    /\ th' = [ th EXCEPT ![t].pc = IF ListTruth(ListOf(lists, th[t].fl)) THEN "acquire" ELSE "walk" ]
    /\ UNCHANGED << mode, auxVars, fsVars, dc, rc, dcLock, rcLock, lists, rng, randOwner, ncalls, calls, rcStale >>

\* filelist = SortListLock(build_recursive_list(path, recurse, filterFunction, ""))
Walk(t) ==
    /\ th[t].pc = "walk"
    /\ \E i \in ListIds : i \notin Refs(dc, rc, th)
    /\ th' = [ th EXCEPT ![t].fl = FreshId, ![t].walked = TRUE, ![t].pc = "put" ]
    /\ lists' = [ Sweep(lists, dc, rc, th') EXCEPT
                    ![FreshId] = NewList(build_recursive_list(fsFiles, th[t].q.path, th[t].q.recurse)) ]
    /\ UNCHANGED << mode, auxVars, fsVars, dc, rc, dcLock, rcLock, rng, randOwner, ncalls, calls, rcStale >>

\* rc[path] = filelist, or dc[path] = filelist
Put(t) ==
    /\ th[t].pc = "put" /\ th[t].inop
    /\ th' = [ th EXCEPT ![t].inop = FALSE, ![t].pc = "acquire" ]
    /\ IF th[t].q.recurse
       THEN /\ rc' = CachePut(rc, RecurseCacheSize, th[t].q.path, th[t].fl, now)
            /\ rcLock' = 0
            /\ rcStale' = { k \in rcStale \ { th[t].q.path } : CacheHas(rc', k) }
            /\ UNCHANGED << dc, dcLock >>
       ELSE /\ dc' = CachePut(dc, DirCacheSize, th[t].q.path, th[t].fl, now)
            /\ dcLock' = 0
            /\ UNCHANGED << rc, rcLock, rcStale >>
    /\ lists' = Sweep(lists, dc', rc', th')
    /\ UNCHANGED << mode, auxVars, fsVars, rng, randOwner, ncalls, calls >>


\* filelist.acquire(): the list's own RLock
Acquire(t) ==
    /\ th[t].pc = "acquire"
    /\ LockFree(lists[th[t].fl].owner, t)
    /\ lists' = [ lists EXCEPT ![th[t].fl].owner = t ]
    /\ th' = [ th EXCEPT ![t].pc = "sortdecide" ]
    /\ UNCHANGED << mode, auxVars, fsVars, dc, rc, dcLock, rcLock, rng, randOwner, ncalls, calls, rcStale >>

\* a test that looks at the dirty flag alone
NeedsSortDirtyOnly(l, q) == l.unsorted

\* filelist.unsorted or filelist.sortby != sortby
NeedsSort(l, q) == l.unsorted \/ l.sortby # SortKey(q)

\* if filelist.unsorted or filelist.sortby != sortby (held, resort, dirty:
\* history)
SortDecide(t) ==
    /\ th[t].pc = "sortdecide"
    /\ th' = [ th EXCEPT ![t].pc =
                 IF NeedsSort(lists[th[t].fl], th[t].q)
                 THEN IF th[t].q.sortorder = "Random" THEN "rand_acquire" ELSE "sort"
                 ELSE "paginate",
                         ![t].held = lists[th[t].fl].files,
                         ![t].resort = NeedsSort(lists[th[t].fl], th[t].q),
                         ![t].dirty = lists[th[t].fl].unsorted ]
    /\ UNCHANGED << mode, auxVars, fsVars, dc, rc, dcLock, rcLock, lists, rng, randOwner, ncalls, calls, rcStale >>

\* a random_lock that is never found taken
RandFreeAlways == TRUE

\* random_lock, a threading.Lock, is free
RandFree == randOwner = 0

\* self.random_lock.acquire()
RandAcquire(t) ==
    /\ th[t].pc = "rand_acquire"
    /\ RandFree
    /\ randOwner' = t
    /\ th' = [ th EXCEPT ![t].pc = "seed" ]
    /\ UNCHANGED << mode, auxVars, fsVars, dc, rc, dcLock, rcLock, lists, rng, ncalls, calls, rcStale >>

\* if seed: random.seed(seed)
Seed(t) ==
    /\ th[t].pc = "seed"
    /\ rng' = IF th[t].q.seed # << >> THEN SeedState(th[t].q.seed) ELSE rng
    /\ th' = [ th EXCEPT ![t].pc = "shuffle" ]
    /\ UNCHANGED << mode, auxVars, fsVars, dc, rc, dcLock, rcLock, lists, randOwner, ncalls, calls, rcStale >>

\* a random_lock its holder keeps
RandKept(t) == t

\* self.random_lock.release(): the lock's owner afterwards
RandReleased(t) == 0

\* random.shuffle(filelist.files); self.random_lock.release()
ShuffleStep(t) ==
    /\ th[t].pc = "shuffle"
    /\ lists' = [ lists EXCEPT ![th[t].fl].files = Shuffle(@, rng).files ]
    /\ rng' = Shuffle(lists[th[t].fl].files, rng).rng
    /\ randOwner' = RandReleased(t)
    /\ th' = [ th EXCEPT ![t].pc = IF th[t].q.start # << >> THEN "pin" ELSE "setkey",
                         ![t].shuf = Shuffle(lists[th[t].fl].files, rng).files,
                         ![t].shufin = lists[th[t].fl].files ]
    /\ UNCHANGED << mode, auxVars, fsVars, dc, rc, dcLock, rcLock, ncalls, calls, rcStale >>

\* the start item moves to the front, or a warning is logged
Pin(t) ==
    /\ th[t].pc = "pin"
    /\ lists' = [ lists EXCEPT ![th[t].fl].files = PinStart(@, th[t].q.start) ]
    /\ th' = [ th EXCEPT ![t].pc = "setkey",
                         ![t].warn = NameIdx(lists[th[t].fl].files, StartPath(th[t].q.start)) = 0 ]
    /\ UNCHANGED << mode, auxVars, fsVars, dc, rc, dcLock, rcLock, rng, randOwner, ncalls, calls, rcStale >>

\* filelist.files.sort(...)
SortStep(t) ==
    /\ th[t].pc = "sort"
    /\ lists' = [ lists EXCEPT ![th[t].fl].files = SortFiles(th[t].q.sortorder, @) ]
    /\ th' = [ th EXCEPT ![t].pc = "setkey" ]
    /\ UNCHANGED << mode, auxVars, fsVars, dc, rc, dcLock, rcLock, rng, randOwner, ncalls, calls, rcStale >>

\* filelist.sortby = sortby; filelist.unsorted = False
SetKey(t) ==
    /\ th[t].pc = "setkey"
    /\ lists' = [ lists EXCEPT ![th[t].fl].sortby = SortKey(th[t].q), ![th[t].fl].unsorted = FALSE ]
    /\ th' = [ th EXCEPT ![t].pc = "paginate" ]
    /\ UNCHANGED << mode, auxVars, fsVars, dc, rc, dcLock, rcLock, rng, randOwner, ncalls, calls, rcStale >>

\* files = filelist.files[:]; filter; item_count; filelist.last_start = start_item.
\* An error raised by item_count leaves get_files from inside it: no handler
\* and no finally stands between filelist.acquire() and filelist.release().
Paginate(t) ==
    /\ th[t].pc = "paginate"
    /\ IF th[t].q.count = BadCount
       THEN /\ th' = [ th EXCEPT ![t] = Raised(t) ]
            /\ lists' = lists
       ELSE LET page == item_count(th[t].q, FilterFiles(th[t].q, lists[th[t].fl].files))
            IN  /\ th' = [ th EXCEPT ![t].res = page, ![t].pc = "release" ]
                /\ lists' = [ lists EXCEPT ![th[t].fl].last_start = page.start ]
    /\ UNCHANGED << mode, auxVars, fsVars, dc, rc, dcLock, rcLock, rng, randOwner, ncalls, calls, rcStale >>

\* filelist.release()
Release(t) ==
    /\ th[t].pc = "release"
    /\ lists' = [ lists EXCEPT ![th[t].fl].owner = 0 ]
    /\ th' = [ th EXCEPT ![t].pc = "return" ]
    /\ UNCHANGED << mode, auxVars, fsVars, dc, rc, dcLock, rcLock, rng, randOwner, ncalls, calls, rcStale >>

\* history: what a call was asked, did and returned (order: the list's files
\* when the call released it)
CallRecord(t) ==
    [ q |-> th[t].q, order |-> lists[th[t].fl].files, warn |-> th[t].warn, shuf |-> th[t].shuf, walked |-> th[t].walked, resort |-> th[t].resort, res |-> th[t].res, fl |-> th[t].fl,
      updated |-> th[t].updated, pre |-> th[t].pre, post |-> Snap(th[t].q.path), modified |-> {} ]

\* return files, total, start_item
Return(t) ==
    /\ th[t].pc = "return"
    /\ th' = [ th EXCEPT ![t] = IdleThread ]
    /\ lists' = Sweep(lists, dc, rc, th')
    /\ calls' = IF mode = "sort" THEN Append(calls, CallRecord(t))
                ELSE IF mode # "seq" THEN calls
                ELSE IF Len(calls) < 2 THEN Append(calls, CallRecord(t))
                ELSE << calls[2], CallRecord(t) >>
    /\ UNCHANGED << mode, auxVars, fsVars, dc, rc, dcLock, rcLock, rng, randOwner, ncalls, rcStale >>

Step(t) ==
    \/ GetMtime(t) \/ EnterOp(t) \/ DcHas(t) \/ DcMtime(t) \/ DcGet(t)
    \/ RcIter(t) \/ RcLoop(t) \/ RcMtime(t) \/ RcDel(t) \/ RcHas(t) \/ RcGet(t)
    \/ Truth(t) \/ Walk(t) \/ Put(t) \/ Acquire(t) \/ SortDecide(t)
    \/ RandAcquire(t) \/ Seed(t) \/ ShuffleStep(t) \/ Pin(t) \/ SortStep(t) \/ SetKey(t)
    \/ Paginate(t) \/ Release(t) \/ Return(t)

(***************************************************************************)
(* The environment: files appear and disappear, time passes.               *)
(***************************************************************************)
\* d is k or lies below it
Below(d, k) == d = k \/ StartsWith(d, k \o << "/" >>)

\* a file is created in or removed from directory d, at once or after a while
Touch(d) ==
    /\ ntouch < MaxTouch
    /\ ntouch' = ntouch + 1
    /\ \E f \in FilesOf(d) :
          fsFiles' = [ fsFiles EXCEPT ![d] = IF f \in @ THEN @ \ { f } ELSE @ \cup { f } ]
    /\ \E adv \in 0..1 :
          /\ now' = now + adv
          /\ fsMtime' = [ fsMtime EXCEPT ![d] = now + adv ]
    /\ rcStale' = rcStale \cup { k \in Dirs : CacheHas(rc, k) /\ Below(d, k) }
    /\ calls' = IF calls = << >> THEN calls
                ELSE [ calls EXCEPT ![Len(calls)].modified = @ \cup { d } ]
    /\ UNCHANGED << mode, auxVars, dc, rc, dcLock, rcLock, lists, rng, randOwner, th, ncalls >>

vars == << mode, now, fsFiles, fsMtime, ntouch, dc, rc, dcLock, rcLock, lists, rng, randOwner, th,
           ncalls, calls, rcStale, mc, cop, cuse, vreq, wire, vlog, preq, pout, calc, cont, tv, hs >>

InitGet ==
    /\ now = 0
    /\ fsFiles = [ d \in Dirs |-> IF d = P THEN { "b" } ELSE {} ]
    /\ fsMtime = [ d \in Dirs |-> 0 ]
    /\ ntouch = 0
    /\ dc = << >>
    /\ rc = << >>
    /\ dcLock = 0
    /\ rcLock = 0
    /\ lists = [ i \in ListIds |-> FreeList ]
    /\ rng = 0
    /\ randOwner = 0
    /\ th = [ t \in Threads |-> IdleThread ]
    /\ ncalls = 0
    /\ calls = << >>
    /\ rcStale = {}
    /\ mc = << >>
    /\ cop = NoOp
    /\ cuse = << >>
    /\ vreq = NoVideoReq
    /\ wire = << >>
    /\ vlog = << >>
    /\ preq = NoPhotoReq
    /\ pout = NoPhotoOut
    /\ calc = NoCalc
    /\ cont = NoCont
    /\ tv = NoDetails
    /\ hs = NoHttp

(***************************************************************************)
(* Sequential requests: one get_files at a time, the filesystem changing   *)
(* between them.                                                           *)
(***************************************************************************)
\* SortOrder=Random&RandomSeed=s&RandomStart=/c/b on the share's top directory
RandomQuery ==
    [ NoQuery EXCEPT !.sortorder = "Random", !.seed = << "s" >>, !.start = << "/", "c", "/", "b" >> ]

SeqQueries ==
    { [ NoQuery EXCEPT !.path = d, !.recurse = r ] : d \in Dirs, r \in BOOLEAN }
        \cup { RandomQuery }

InitSeq == mode = "seq" /\ InitGet

NextSeq ==
    \/ \E q \in SeqQueries : Call(1, q)
    \/ Step(1)
    \/ th[1].pc = "idle" /\ \E d \in Dirs : Touch(d)

SpecSeq == InitSeq /\ [][NextSeq]_vars


(***************************************************************************)
(* Concurrent requests: one thread per request, each step of get_files     *)
(* interleaved with the other threads'.  A new request takes the first     *)
(* free thread.  The filesystem changes while no request is in progress.   *)
(***************************************************************************)
ConcQueries ==
    { NoQuery, RandomQuery, [ NoQuery EXCEPT !.recurse = TRUE ] }

InitConc == mode = "conc" /\ InitGet

NextConc ==
    \/ \E t \in Threads : \E q \in ConcQueries :
          /\ \A u \in Threads : u < t => th[u].pc # "idle"
          /\ Call(t, q)
    \/ \E t \in Threads : Step(t)
    \/ (\A t \in Threads : th[t].pc = "idle") /\ \E d \in Dirs : Touch(d)

SpecConc == InitConc /\ [][NextConc]_vars


(***************************************************************************)
(* Sorting, shuffling and filtering: requests one after the other for the  *)
(* share's top directory, over every content of the two directories; the   *)
(* filesystem does not change during a run.                                *)
(***************************************************************************)
RandomQueries ==
    { [ NoQuery EXCEPT !.sortorder = "Random", !.seed = sd, !.start = st ] :
         sd \in { << "s" >>, << "t" >> },
         st \in { << >>, << "/", "c", "/", "b" >>, << "/", "c", "/", "z" >> } }
        \cup { [ NoQuery EXCEPT !.sortorder = "Random" ] }

OrderQueries ==
    { [ NoQuery EXCEPT !.sortorder = o, !.recurse = r ] :
         o \in { "Normal", "Type" }, r \in BOOLEAN }
        \cup { [ NoQuery EXCEPT !.sortorder = "Sideways" ] }

\* Filter=..., as the set of the tokens "folder" and "image" found in it
FilterQueries ==
    { [ NoQuery EXCEPT !.sortorder = "Type", !.hasfilter = TRUE, !.filter = f ] :
         f \in SUBSET { "folder", "image" } }

SortQueries == RandomQueries \cup OrderQueries \cup FilterQueries

InitSort ==
    /\ mode = "sort"
    /\ now = 0
    /\ fsFiles \in [ Dirs -> SUBSET FileNames ]
    /\ \A d \in Dirs : fsFiles[d] \subseteq FilesOf(d)
    /\ fsMtime = [ d \in Dirs |-> 0 ]
    /\ ntouch = 0
    /\ dc = << >>
    /\ rc = << >>
    /\ dcLock = 0
    /\ rcLock = 0
    /\ lists = [ i \in ListIds |-> FreeList ]
    /\ rng = 0
    /\ randOwner = 0
    /\ th = [ t \in Threads |-> IdleThread ]
    /\ ncalls = 0
    /\ calls = << >>
    /\ rcStale = {}
    /\ mc = << >>
    /\ cop = NoOp
    /\ cuse = << >>
    /\ vreq = NoVideoReq
    /\ wire = << >>
    /\ vlog = << >>
    /\ preq = NoPhotoReq
    /\ pout = NoPhotoOut
    /\ calc = NoCalc
    /\ cont = NoCont
    /\ tv = NoDetails
    /\ hs = NoHttp

\* del rc[p] needs a directory changed after a recursive listing: not here
NextSort ==
    \/ \E q \in SortQueries : Call(1, q)
    \/ GetMtime(1) \/ EnterOp(1) \/ DcHas(1) \/ DcMtime(1) \/ DcGet(1)
    \/ RcIter(1) \/ RcLoop(1) \/ RcMtime(1) \/ RcHas(1) \/ RcGet(1)
    \/ Truth(1) \/ Walk(1) \/ Put(1) \/ Acquire(1) \/ SortDecide(1)
    \/ RandAcquire(1) \/ Seed(1) \/ ShuffleStep(1) \/ Pin(1) \/ SortStep(1) \/ SetKey(1)
    \/ Paginate(1) \/ Release(1) \/ Return(1)

SpecSort == InitSort /\ [][NextSort]_vars

(***************************************************************************)
(* The three caches on their own: puts, reads and deletes made one at a    *)
(* time on one of them, starting empty or one entry short of its size      *)
(* (the cache after that many puts of keys 1, 2, ...).                     *)
(***************************************************************************)
MaxCacheOps == 5

CacheNames == { "media_data_cache", "recurse_cache", "dir_cache" }

\* the module-level objects of photo.py and the size each is built with
CacheOf(c) ==
    CASE c = "media_data_cache" -> mc
      [] c = "recurse_cache" -> rc
      [] c = "dir_cache" -> dc

SizeOf(c) ==
    CASE c = "media_data_cache" -> MediaCacheSize
      [] c = "recurse_cache" -> RecurseCacheSize
      [] c = "dir_cache" -> DirCacheSize

\* keys put, read and deleted again and again; every other key is put once
HotKeys == { 1, 2 }

KeySet(c) == { c[i].key : i \in 1..Len(c) }

\* the key put or read longest ago
LeastRecent(use) ==
    IF DOMAIN use = {} THEN 0
    ELSE CHOOSE k \in DOMAIN use : \A j \in DOMAIN use : use[k] <= use[j]

OpRecord(c, op, k, before, after) ==
    [ cache |-> c, op |-> op, key |-> k, n |-> cop.n + 1,
      maxkey |-> IF k > cop.maxkey THEN k ELSE cop.maxkey,
      wasNew |-> ~CacheHas(before, k),
      lenBefore |-> Len(before), lenAfter |-> Len(after),
      evicted |-> KeySet(before) \ KeySet(after),
      lru |-> LeastRecent(cuse) ]

SetCache(c, new) ==
    /\ mc' = IF c = "media_data_cache" THEN new ELSE mc
    /\ rc' = IF c = "recurse_cache" THEN new ELSE rc
    /\ dc' = IF c = "dir_cache" THEN new ELSE dc

restVars == << fsFiles, fsMtime, ntouch, dcLock, rcLock, lists, rng, randOwner, th, ncalls,
               calls, rcStale >>

\* cache[k] = obj
CachePutOp(k) ==
    /\ mode = "cache"
    /\ cop.n < MaxCacheOps
    /\ LET c == cop.cache
           before == CacheOf(c)
           after == CachePut(before, SizeOf(c), k, 0, now + 1)
       IN  /\ SetCache(c, after)
           /\ cop' = OpRecord(c, "put", k, before, after)
           /\ cuse' = [ j \in KeySet(after) |-> IF j = k THEN now + 1 ELSE cuse[j] ]
    /\ now' = now + 1
    /\ UNCHANGED << mode, restVars, videoVars, photoVars, pureVars, containerVars, detailsVars, httpVars >>

\* cache[k]
CacheGetOp(k) ==
    /\ mode = "cache"
    /\ cop.n < MaxCacheOps
    /\ CacheHas(CacheOf(cop.cache), k)
    /\ LET c == cop.cache
           before == CacheOf(c)
           after == CacheTouch(before, k)
       IN  /\ SetCache(c, after)
           /\ cop' = OpRecord(c, "get", k, before, after)
           /\ cuse' = [ cuse EXCEPT ![k] = now + 1 ]
    /\ now' = now + 1
    /\ UNCHANGED << mode, restVars, videoVars, photoVars, pureVars, containerVars, detailsVars, httpVars >>

\* del cache[k]
CacheDelOp(k) ==
    /\ mode = "cache"
    /\ cop.n < MaxCacheOps
    /\ CacheHas(CacheOf(cop.cache), k)
    /\ LET c == cop.cache
           before == CacheOf(c)
           after == CacheDel(before, k)
       IN  /\ SetCache(c, after)
           /\ cop' = OpRecord(c, "del", k, before, after)
           /\ cuse' = [ j \in KeySet(after) |-> cuse[j] ]
    /\ now' = now + 1
    /\ UNCHANGED << mode, restVars, videoVars, photoVars, pureVars, containerVars, detailsVars, httpVars >>

\* the cache c after puts of the keys 1..n, one per tick
Filled(n) == [ i \in 1..n |-> [ key |-> i, obj |-> 0, mtime |-> i ] ]

InitCache ==
    /\ mode = "cache"
    /\ \E c \in CacheNames : \E n \in { 0, SizeOf(c) - 1 } :
          /\ mc = IF c = "media_data_cache" THEN Filled(n) ELSE << >>
          /\ rc = IF c = "recurse_cache" THEN Filled(n) ELSE << >>
          /\ dc = IF c = "dir_cache" THEN Filled(n) ELSE << >>
          /\ cop = [ NoOp EXCEPT !.cache = c, !.maxkey = n ]
          /\ cuse = [ i \in 1..n |-> i ]
          /\ now = n
    /\ fsFiles = [ d \in Dirs |-> {} ]
    /\ fsMtime = [ d \in Dirs |-> 0 ]
    /\ ntouch = 0
    /\ dcLock = 0
    /\ rcLock = 0
    /\ lists = [ i \in ListIds |-> FreeList ]
    /\ rng = 0
    /\ randOwner = 0
    /\ th = [ t \in Threads |-> IdleThread ]
    /\ ncalls = 0
    /\ calls = << >>
    /\ rcStale = {}
    /\ vreq = NoVideoReq
    /\ wire = << >>
    /\ vlog = << >>
    /\ preq = NoPhotoReq
    /\ pout = NoPhotoOut
    /\ calc = NoCalc
    /\ cont = NoCont
    /\ tv = NoDetails
    /\ hs = NoHttp

NextCache ==
    \/ \E k \in HotKeys \cup { cop.maxkey + 1 } : CachePutOp(k)
    \/ \E k \in HotKeys : CacheGetOp(k)
    \/ \E k \in HotKeys : CacheDelOp(k)

SpecCache == InitCache /\ [][NextCache]_vars

(***************************************************************************)
(* Properties of the caches' sizes (SpecCache).                            *)
(***************************************************************************)
\* C4: media_data_cache never holds more than 300 entries, recurse_cache never
\* more than 5 and dir_cache never more than 10; a put of a new key into a full
\* cache drops exactly the entry put or read longest ago, and a put into a cache
\* that is not full drops nothing.
C4_CachesBoundedLRU ==
    /\ Len(mc) <= 300
    /\ Len(rc) <= 5
    /\ Len(dc) <= 10
    /\ (cop.op = "put" /\ cop.wasNew) =>
          LET cap == CASE cop.cache = "media_data_cache" -> 300
                       [] cop.cache = "recurse_cache" -> 5
                       [] cop.cache = "dir_cache" -> 10
          IN  IF cop.lenBefore = cap
              THEN cop.evicted = { cop.lru } /\ cop.lenAfter = cap
              ELSE cop.evicted = {} /\ cop.lenAfter = cop.lenBefore + 1

\* the case of C4: the full media_data_cache drops key 2, key 1 having been
\* read after it was put
C4_Witness ==
    /\ cop.cache = "media_data_cache"
    /\ cop.op = "put" /\ cop.wasNew
    /\ cop.lenBefore = 300
    /\ cop.evicted = { 2 }
    /\ Len(mc) = 300

(***************************************************************************)
(* Video.send_file, for one request (it keeps nothing from one request to  *)
(* the next).  The file, the request headers and the answers of transcode  *)
(* and config are inputs; what is written to the client and to the log is  *)
(* recorded in order.                                                      *)
(***************************************************************************)
\* pad without "if extra": a whole align is added to an aligned length
padFull(length, align) == align - (length % align)

pad(length, align) ==
    LET extra == length % align IN IF extra # 0 THEN align - extra ELSE 0

\* len(chunk), blocklen and len(tivo_header(...)) for a details blob of ld bytes
ChunkLen(ld) == ld + pad(ld, 4) + 4

BlockLen(ld) == ChunkLen(ld) * 2 + 40

TivoHeaderLen(ld) == BlockLen(ld) + pad(BlockLen(ld), 1024)

\* f.read(512 * 1024)
BlockSize == 512 * 1024

Mimes == { "video/x-tivo-mpeg", "video/mpeg", "video/x-tivo-mpeg-ts" }

\* no Range header (or one that int() rejects)
NoRange == -1

RangeVals == { NoRange, 0, 100, 1500, 3000 }

FileSizes == { 0, 2000, 600000 }

\* lengths of the details XML
DetailLens == { 10, 1001 }

\* byte counts transcode.transcode and transcode.resume_transfer report
TranscodeCounts == { 0, 4096 }

VideoInputs ==
    [ is_tivo_file : BOOLEAN, mime : Mimes, tc : BOOLEAN, decode : BOOLEAN,
      range : RangeVals, fsize : FileSizes, resumable : BOOLEAN, ld : DetailLens ]

\* a size that leaves the synthesized header out
BodySizeNoHead(fsize, thead) == fsize

\* size = os.path.getsize(path) + len(thead)
BodySize(fsize, thead) == fsize + thead

Needs_tivodecode(i) == i.is_tivo_file /\ i.mime = "video/mpeg"

Compatible(i) == ~Needs_tivodecode(i) /\ i.tc

Offset(i) == IF i.range = NoRange THEN 0 ELSE i.range

Valid(i) ==
    LET v1 == IF Needs_tivodecode(i) THEN i.decode ELSE TRUE
    IN  IF v1 /\ Offset(i) # 0
        THEN \/ Compatible(i) /\ Offset(i) < i.fsize
             \/ ~Compatible(i) /\ i.resumable
        ELSE v1

Faking(i) == i.mime = "video/x-tivo-mpeg" /\ ~(i.is_tivo_file /\ Compatible(i))

Thead(i) == IF Faking(i) THEN TivoHeaderLen(i.ld) ELSE 0

Status(code) == [ ev |-> "status", name |-> "", v |-> code ]

Header(name, v) == [ ev |-> "header", name |-> name, v |-> v ]

EndHeaders == [ ev |-> "end_headers", name |-> "", v |-> 0 ]

Body(n) == [ ev |-> "body", name |-> "", v |-> n ]

Terminator == [ ev |-> "body", name |-> "0\r\n\r\n", v |-> 5 ]

LogStart == [ ev |-> "Start sending", v |-> 0 ]

LogError == [ ev |-> "error", v |-> 0 ]

LogDone(count) == [ ev |-> "Done sending", v |-> count ]

\* from the top of send_file to the "Start sending" line
VideoSendFile(i) ==
    /\ mode = "video"
    /\ ~vreq.active
    /\ vreq' = [ active |-> TRUE, in |-> i, pc |-> "body", compatible |-> Compatible(i),
                 valid |-> Valid(i), faking |-> Faking(i), thead |-> Thead(i),
                 offset |-> Offset(i), pos |-> 0, count |-> 0 ]
    /\ wire' =
          IF Compatible(i)
          THEN LET size == BodySize(i.fsize, Thead(i))
               IN  << Status(200),
                      Header("Content-Length", size - Offset(i)),
                      Header("Content-Range", << Offset(i), size - Offset(i) - 1, size >>),
                      Header("Content-Type", i.mime),
                      EndHeaders >>
          ELSE << Status(206),
                  Header("Transfer-Encoding", "chunked"),
                  Header("Content-Type", i.mime),
                  EndHeaders >>
    /\ vlog' = << LogStart >>
    /\ UNCHANGED << mode, getVars, fsVars, cacheVars, photoVars, pureVars, containerVars, detailsVars, httpVars >>

\* if not valid: nothing of the body is tried
VideoSkipBody ==
    /\ mode = "video" /\ vreq.active /\ vreq.pc = "body"
    /\ ~vreq.valid
    /\ vreq' = [ vreq EXCEPT !.pc = "finish" ]
    /\ UNCHANGED << mode, getVars, fsVars, cacheVars, photoVars, pureVars, containerVars, detailsVars, httpVars,
                    wire, vlog >>

\* handler.wfile.write(thead), outside the try: a failed write escapes
VideoWriteHead ==
    /\ mode = "video" /\ vreq.active /\ vreq.pc = "body"
    /\ vreq.valid /\ vreq.compatible
    /\ IF vreq.faking /\ vreq.offset = 0
       THEN \/ /\ wire' = Append(wire, Body(vreq.thead))
               /\ vreq' = [ vreq EXCEPT !.pc = "open" ]
            \/ /\ wire' = wire
               /\ vreq' = [ vreq EXCEPT !.pc = "raised" ]
       ELSE /\ wire' = wire
            /\ vreq' = [ vreq EXCEPT !.pc = "open" ]
    /\ UNCHANGED << mode, getVars, fsVars, cacheVars, photoVars, pureVars, containerVars, detailsVars, httpVars, vlog >>

\* f = open(path, "rb"), outside the try
VideoOpen ==
    /\ mode = "video" /\ vreq.active /\ vreq.pc = "open"
    /\ \/ vreq' = [ vreq EXCEPT !.pc = IF vreq.offset # 0 THEN "seek" ELSE "read" ]
       \/ vreq' = [ vreq EXCEPT !.pc = "raised" ]
    /\ UNCHANGED << mode, getVars, fsVars, cacheVars, photoVars, pureVars, containerVars, detailsVars, httpVars,
                    wire, vlog >>

\* offset -= len(thead); f.seek(offset): a negative position is an OSError
VideoSeek ==
    /\ mode = "video" /\ vreq.active /\ vreq.pc = "seek"
    /\ LET to == vreq.offset - vreq.thead
       IN  IF to < 0
           THEN /\ vreq' = [ vreq EXCEPT !.offset = to, !.pc = "close" ]
                /\ vlog' = Append(vlog, LogError)
           ELSE /\ vreq' = [ vreq EXCEPT !.offset = to, !.pos = to, !.pc = "read" ]
                /\ vlog' = vlog
    /\ UNCHANGED << mode, getVars, fsVars, cacheVars, photoVars, pureVars, containerVars, detailsVars, httpVars, wire >>

\* one turn of the while loop: read a block, write it, count it
VideoRead ==
    /\ mode = "video" /\ vreq.active /\ vreq.pc = "read"
    /\ LET left == IF vreq.in.fsize > vreq.pos THEN vreq.in.fsize - vreq.pos ELSE 0
           block == IF left > BlockSize THEN BlockSize ELSE left
       IN  \/ /\ block = 0
              /\ vreq' = [ vreq EXCEPT !.pc = "close" ]
              /\ UNCHANGED << wire, vlog >>
           \/ /\ block > 0
              /\ wire' = Append(wire, Body(block))
              /\ vreq' = [ vreq EXCEPT !.pos = @ + block, !.count = @ + block ]
              /\ vlog' = vlog
           \/ \* the read or the write raises
              /\ vreq' = [ vreq EXCEPT !.pc = "close" ]
              /\ vlog' = Append(vlog, LogError)
              /\ wire' = wire
    /\ UNCHANGED << mode, getVars, fsVars, cacheVars, photoVars, pureVars, containerVars, detailsVars, httpVars >>

\* f.close()
VideoClose ==
    /\ mode = "video" /\ vreq.active /\ vreq.pc = "close"
    /\ vreq' = [ vreq EXCEPT !.pc = "finish" ]
    /\ UNCHANGED << mode, getVars, fsVars, cacheVars, photoVars, pureVars, containerVars, detailsVars, httpVars,
                    wire, vlog >>

\* transcode.resume_transfer or transcode.transcode writes the body and
\* returns the count
VideoTranscode ==
    /\ mode = "video" /\ vreq.active /\ vreq.pc = "body"
    /\ vreq.valid /\ ~vreq.compatible
    /\ \E n \in TranscodeCounts :
          /\ vreq' = [ vreq EXCEPT !.count = n, !.pc = "finish" ]
          /\ wire' = IF n > 0 THEN Append(wire, Body(n)) ELSE wire
    /\ UNCHANGED << mode, getVars, fsVars, cacheVars, photoVars, pureVars, containerVars, detailsVars, httpVars, vlog >>

\* the terminator written whatever the mode
FinalWriteAlways(compatible) == << Terminator >>

\* if not compatible: handler.wfile.write(b"0\r\n\r\n")
FinalWrite(compatible) == IF compatible THEN << >> ELSE << Terminator >>

\* the chunk terminator if not compatible, the flush, the "Done sending" line
VideoFinish ==
    /\ mode = "video" /\ vreq.active /\ vreq.pc = "finish"
    /\ \/ /\ wire' = wire \o FinalWrite(vreq.compatible)
          /\ vlog' = Append(vlog, LogDone(vreq.count))
       \/ \* the write or the flush raises
          /\ wire' = wire
          /\ vlog' = vlog \o << LogError, LogDone(vreq.count) >>
    /\ vreq' = [ vreq EXCEPT !.pc = "done" ]
    /\ UNCHANGED << mode, getVars, fsVars, cacheVars, photoVars, pureVars, containerVars, detailsVars, httpVars >>

InitVideo ==
    /\ mode = "video"
    /\ InitGet

NextVideo ==
    \/ \E i \in VideoInputs : VideoSendFile(i)
    \/ VideoSkipBody
    \/ VideoWriteHead
    \/ VideoOpen
    \/ VideoSeek
    \/ VideoRead
    \/ VideoClose
    \/ VideoTranscode
    \/ VideoFinish

SpecVideo == InitVideo /\ [][NextVideo]_vars

(***************************************************************************)
(* Properties of Video.send_file (SpecVideo).                              *)
(***************************************************************************)
HeaderValues(name) ==
    { wire[k].v : k \in { j \in 1..Len(wire) : wire[j].ev = "header" /\ wire[j].name = name } }

\* C7: a request for a file that is not byte-compatible, with a Range offset
\* other than zero that transcode.is_resumable refuses, gets nothing written:
\* no status line, no header, no body, no chunk terminator.
C7_NonResumableWritesNothing ==
    (vreq.active /\ ~vreq.compatible /\ vreq.offset # 0 /\ ~vreq.in.resumable)
        => wire = << >>

\* C8: a byte-compatible file asked for without a Range header is answered by
\* one status line, 200, with a Content-Length of the file's size plus the length
\* of the synthesized header (none: zero), and never as a chunked transfer.
C8_CompatibleLengthIsFilePlusHeader ==
    (vreq.active /\ vreq.compatible /\ vreq.in.range = NoRange)
        => /\ Cardinality({ k \in 1..Len(wire) : wire[k].ev = "status" }) = 1
           /\ wire[1].ev = "status" /\ wire[1].v = 200
           /\ HeaderValues("Content-Length")
                 = { vreq.in.fsize + (IF vreq.faking THEN TivoHeaderLen(vreq.in.ld) ELSE 0) }
           /\ HeaderValues("Transfer-Encoding") = {}
           /\ \A k \in 1..Len(wire) : wire[k].name # Terminator.name

\* the case of C8: a file that gets a synthesized header, sent whole
C8_Witness ==
    /\ vreq.active /\ vreq.compatible /\ vreq.in.range = NoRange
    /\ vreq.faking /\ vreq.thead = 1024
    /\ vreq.in.fsize = 2000
    /\ vreq.pc = "done"
    /\ HeaderValues("Content-Length") = { 3024 }
    /\ vreq.count = 2000

\* the positions of wire holding the chunk terminator
Terminators == { k \in 1..Len(wire) : wire[k].name = Terminator.name }

\* C18: send_file answers in one of two modes.  Byte-compatible: status 200
\* with one Content-Length and one Content-Range, no Transfer-Encoding, and
\* never a chunk terminator.  Not byte-compatible: status 206 with
\* Transfer-Encoding: chunked and no Content-Length, the terminator at most
\* once and only as the last thing written, after the body of the transcode
\* or resume, and exactly once when send_file is done and no write failed.
C18_TwoModesOneTerminator ==
    vreq.active =>
        /\ Cardinality({ k \in 1..Len(wire) : wire[k].ev = "status" }) = 1
        /\ wire[1].ev = "status"
        /\ vreq.compatible =>
              /\ wire[1].v = 200
              /\ Cardinality(HeaderValues("Content-Length")) = 1
              /\ Cardinality(HeaderValues("Content-Range")) = 1
              /\ HeaderValues("Transfer-Encoding") = {}
              /\ Terminators = {}
        /\ ~vreq.compatible =>
              /\ wire[1].v = 206
              /\ HeaderValues("Transfer-Encoding") = { "chunked" }
              /\ HeaderValues("Content-Length") = {}
              /\ HeaderValues("Content-Range") = {}
              /\ Terminators \subseteq { Len(wire) }
              /\ (vreq.pc = "done" /\ \A k \in 1..Len(vlog) : vlog[k] # LogError)
                    => Terminators = { Len(wire) }
              /\ vreq.pc # "done" => Terminators = {}

\* the case of C18: a transcode that wrote a body, then the terminator
C18_Witness ==
    /\ vreq.active /\ ~vreq.compatible /\ vreq.pc = "done"
    /\ vreq.count = 4096
    /\ Len(wire) = 6
    /\ wire[5] = Body(4096)
    /\ wire[6] = Terminator

(***************************************************************************)
(* Photo.send_file and Photo.media_data, one request at a time.  The       *)
(* query's values are strings; the image library's or ffmpeg's failure at  *)
(* a stage is an input.  An image is told by what it was rendered from:    *)
(* the file, the output size and the rotation applied.                     *)
(***************************************************************************)
MaxPhotoReqs == 3

\* pic.size of each file
OrigSize(path) == IF path = "x.jpg" THEN << 400, 300 >> ELSE << 60, 80 >>

\* the file has no "exif" in pic.info
NoExif == 999

\* the orientation tag found in the file's exif (x.jpg: 6)
Orient(path) == IF path = "x.jpg" THEN 6 ELSE NoExif

\* the exif has no orientation tag (neither pattern matches)
NoOrient == 0 - 1

\* parse_exif's table with every tag 5..8 turned the other way
ExifTableTurned(orient) ==
    CASE orient \in { 1, 2 } -> 0
      [] orient \in { 3, 4 } -> 180
      [] orient \in { 5, 8 } -> 0 - 90
      [] orient \in { 6, 7 } -> 90
      [] OTHER -> 0

\* {1: 0, 2: 0, 3: 180, 4: 180, 5: 90, 6: -90, 7: -90, 8: 90}.get(orient, 0)
ExifTable(orient) ==
    CASE orient \in { 1, 2 } -> 0
      [] orient \in { 3, 4 } -> 180
      [] orient \in { 5, 8 } -> 90
      [] orient \in { 6, 7 } -> 0 - 90
      [] OTHER -> 0

\* the rotation parse_exif's table gives for the file's orientation tag
ExifRot(path) == IF Orient(path) = NoExif THEN NoExif ELSE ExifTable(Orient(path))

NoImage == [ path |-> "", w |-> 0, h |-> 0, rot |-> 0 ]

\* the item media_data builds (the fields send_file and the renderers use)
NewAttrs ==
    [ rotation |-> 0, thumb |-> NoImage, hasexifrot |-> FALSE, exifrot |-> 0, hassize |-> FALSE ]

\* int(s): the strings it accepts, and their values
IntStrings == { "0", "50", "60", "200", "90" }

ParseInt(s) ==
    CASE s = "0" -> 0
      [] s = "50" -> 50
      [] s = "60" -> 60
      [] s = "200" -> 200
      [] s = "90" -> 90

\* [int(x) for x in pshape.split(":")] unpacked into two names
PixelShapes == { "1:1", "4:3", "0:1" }

ParsePShape(s) ==
    CASE s = "1:1" -> << 1, 1 >>
      [] s = "4:3" -> << 4, 3 >>
      [] s = "0:1" -> << 0, 1 >>

SizeError == [ ok |-> FALSE, w |-> 0, h |-> 0 ]

(***************************************************************************)
(* new_size computes in floats (IEEE doubles, round to nearest even):      *)
(* ratio = float(oldw) / oldh is the quotient rounded to 53 bits, and       *)
(* int(height * ratio), int(width / ratio) truncate a product or quotient   *)
(* that was rounded again.  Where the exact value is not an integer the     *)
(* truncation is the exact floor (the sizes are far below 2^40); where it   *)
(* is an integer n the float can fall just below n, and int() gives n - 1.  *)
(* The operators below decide that with integers only.                      *)
(***************************************************************************)
RECURSIVE Pow2(_)
Pow2(k) == IF k = 0 THEN 1 ELSE 2 * Pow2(k - 1)

\* 2^k modulo m
RECURSIVE Pow2Mod(_, _)
Pow2Mod(k, m) == IF k = 0 THEN 1 % m ELSE (2 * Pow2Mod(k - 1, m)) % m

RECURSIVE ExpUp(_, _, _)
ExpUp(a, b, e) == IF 2 * b * Pow2(e) <= a THEN ExpUp(a, b, e + 1) ELSE e

RECURSIVE ExpDown(_, _, _)
ExpDown(a, b, k) == IF a * Pow2(k) < b THEN ExpDown(a, b, k + 1) ELSE k

\* the binary exponent of the float a / b: the e with 2^e <= a/b < 2^(e+1)
Exp2(a, b) == IF a >= b THEN ExpUp(a, b, 0) ELSE 0 - ExpDown(a, b, 1)

\* ratio = float(oldw) / oldh: the signed error of the rounded quotient, as
\* the c with ratio - oldw/oldh = (c / oldh) * 2^(Exp2(oldw, oldh) - 52)
RatioErr(ow, oh) ==
    LET k   == 52 - Exp2(ow, oh)
        rem == (ow * Pow2Mod(k, oh)) % oh
        odd == (ow * Pow2Mod(k, 2 * oh)) % (2 * oh) >= oh
        up  == 2 * rem > oh \/ (2 * rem = oh /\ odd)
    IN  IF up THEN oh - rem ELSE 0 - rem

IsPow2(n) == n = Pow2(Exp2(n, 1))

\* x * 2^g > y
Scaled(x, g, y) == IF g >= 0 THEN x * Pow2(g) > y ELSE x > y * Pow2(0 - g)

\* half the gap between the integer n and the float below it, as the g with
\* half gap = 2^(Exp2(ow, oh) - 52 - g)
HalfGap(n, ow, oh) == Exp2(ow, oh) + 1 + (IF IsPow2(n) THEN 1 ELSE 0) - Exp2(n, 1)

\* int(height * ratio)
IntMulRatio(h0, ow, oh) ==
    LET n == (h0 * ow) \div oh
        c == RatioErr(ow, oh)
    IN  IF (h0 * ow) % oh # 0 \/ c >= 0 THEN n
        ELSE IF Scaled(h0 * (0 - c), HalfGap(n, ow, oh), oh) THEN n - 1 ELSE n

\* int(width / ratio)
IntDivRatio(w0, ow, oh) ==
    LET n == (w0 * oh) \div ow
        c == RatioErr(ow, oh)
    IN  IF (w0 * oh) % ow # 0 \/ c <= 0 \/ n = 0 THEN n
        ELSE IF Scaled(n * c, HalfGap(n, ow, oh), ow) THEN n - 1 ELSE n

\* ok is FALSE where the code raises (ValueError, ZeroDivisionError)
\* the test made the other way round
Wider(w0, h0, ow, oh) == w0 * oh > ow * h0

\* float(width) / height < ratio: the box is narrower than the source
Narrower(w0, h0, ow, oh) == w0 * oh < ow * h0

new_size(oldw, oldh, width, height, pshape) ==
    IF pshape \notin PixelShapes THEN SizeError
    ELSE LET pix == ParsePShape(pshape)
             w0 == IF width = 0 THEN oldw ELSE width
             h0 == IF height = 0 THEN oldh ELSE height
             ow == oldw * pix[2]
             oh == oldh * pix[1]
         IN  IF oh = 0 \/ h0 = 0 THEN SizeError
             ELSE IF Narrower(w0, h0, ow, oh)
                  THEN IF ow = 0 THEN SizeError
                       ELSE [ ok |-> TRUE, w |-> w0, h |-> IntDivRatio(w0, ow, oh) ]
                  ELSE [ ok |-> TRUE, w |-> IntMulRatio(h0, ow, oh), h |-> h0 ]

PilStages == { "none", "open", "draft", "rotate", "convert", "resize", "encode" }

FfmpegStages == { "none", "ffmpeg", "size", "timeout" }

Builds == [ use_pil : { TRUE }, fail : PilStages ] \cup [ use_pil : { FALSE }, fail : FfmpegStages ]

\* a renderer's outcome: "ok" (True, img), "fail" (False, message), "raise"
Built(st, img, attrs, opened) == [ st |-> st, img |-> img, attrs |-> attrs, opened |-> opened ]

\* parse_exif's orientation part: the rotation it returns and the attrs it leaves
parse_exif(orient, rot, attrs, has) ==
    IF has /\ attrs.hasexifrot
    THEN [ rot |-> (rot + attrs.exifrot) % 360, attrs |-> attrs ]
    ELSE IF orient = NoOrient THEN [ rot |-> rot, attrs |-> attrs ]
    ELSE [ rot |-> (rot + ExifTable(orient)) % 360,
           attrs |-> IF has THEN [ attrs EXCEPT !.hasexifrot = TRUE, !.exifrot = ExifTable(orient) ]
                     ELSE attrs ]

get_image_pil(path, width, height, pshape, rot, attrs, has, fail) ==
    IF fail \in { "open", "draft" } THEN Built("fail", NoImage, attrs, TRUE)
    ELSE LET exif == parse_exif(Orient(path), rot, attrs, has)
             rot1 == IF Orient(path) = NoExif THEN rot ELSE exif.rot
             attrs1 == IF Orient(path) = NoExif THEN attrs ELSE exif.attrs
             sz == new_size(OrigSize(path)[1], OrigSize(path)[2], width, height, pshape)
         IN  IF (fail = "rotate" /\ rot1 # 0) \/ fail = "convert"
             THEN Built("fail", NoImage, attrs1, TRUE)
             ELSE IF ~sz.ok THEN Built("raise", NoImage, attrs1, TRUE)
             ELSE IF fail \in { "resize", "encode" } THEN Built("fail", NoImage, attrs1, TRUE)
             ELSE Built("ok", [ path |-> path, w |-> sz.w, h |-> sz.h, rot |-> rot1 ], attrs1, TRUE)

get_image_ffmpeg(path, width, height, pshape, rot, attrs, has, fail) ==
    IF fail = "ffmpeg" THEN Built("fail", NoImage, attrs, FALSE)
    ELSE IF ~(has /\ attrs.hassize) /\ fail = "size" THEN Built("fail", NoImage, attrs, TRUE)
    ELSE LET attrs1 == IF has THEN [ attrs EXCEPT !.hassize = TRUE ] ELSE attrs
             oldw == IF rot \in { 90, 270 } THEN OrigSize(path)[2] ELSE OrigSize(path)[1]
             oldh == IF rot \in { 90, 270 } THEN OrigSize(path)[1] ELSE OrigSize(path)[2]
             sz == new_size(oldw, oldh, width, height, pshape)
         IN  IF ~sz.ok THEN Built("raise", NoImage, attrs1, has /\ ~attrs.hassize)
             ELSE IF fail = "timeout" THEN Built("fail", NoImage, attrs1, TRUE)
             ELSE Built("ok", [ path |-> path, w |-> sz.w, h |-> sz.h, rot |-> rot ], attrs1, TRUE)

\* the stored thumbnail is only ever one of these: a smaller bound
ThumbSizeSmall(width, height) == width < 60 /\ height < 60

\* if attrs and width < 100 and height < 100: attrs["thumb"] = result
ThumbSize(width, height) == width < 100 /\ height < 100

\* 0 < width < 100 and 0 < height < 100
FastSize(width, height) == 0 < width /\ width < 100 /\ 0 < height /\ height < 100

\* a rotation stored with the old thumbnail left in place
RotatedKeepThumb(attrs, rot) == [ attrs EXCEPT !.rotation = rot ]

\* attrs["rotation"] = rot; if "thumb" in attrs: del attrs["thumb"]
Rotated(attrs, rot) == [ attrs EXCEPT !.rotation = rot, !.thumb = NoImage ]

\* the dict held by the cache, changed in place
SetObj(c, k, obj) ==
    IF CacheHas(c, k) THEN [ c EXCEPT ![CacheIdx(c, k)].obj = obj ] ELSE c

\* what send_file did: it sent a JPEG (200), or an error status, or an
\* exception left it
Sent(img, fast, opened) ==
    [ status |-> "sent", code |-> 200, body |-> img, logged |-> FALSE, opened |-> opened,
      fast |-> fast ]

Error(code, logged, opened) ==
    [ status |-> "error", code |-> code, body |-> NoImage, logged |-> logged,
      opened |-> opened, fast |-> FALSE ]

Escaped(opened) ==
    [ status |-> "raised", code |-> 0, body |-> NoImage, logged |-> FALSE, opened |-> opened,
      fast |-> FALSE ]

PhotoInputs ==
    [ path : PhotoPaths, format : { "none" }, rotation : { "none", "90" },
      width : { "0", "50", "60", "200" }, height : { "0", "50", "60" },
      pshape : { "1:1" }, build : { b \in Builds : b.use_pil /\ b.fail = "none" } ]

PlainInput ==
    [ path |-> "x.jpg", format |-> "none", rotation |-> "none", width |-> "50",
      height |-> "50", pshape |-> "1:1", build |-> [ use_pil |-> TRUE, fail |-> "none" ] ]

\* requests with one value out of the ordinary, or a renderer that fails
OddInputs ==
    { [ PlainInput EXCEPT !.build = b ] : b \in Builds } \cup
    { [ PlainInput EXCEPT !.format = "image/png" ],
      [ PlainInput EXCEPT !.format = "image/png", !.rotation = "90" ],
      [ PlainInput EXCEPT !.format = "image/jpeg" ],
      [ PlainInput EXCEPT !.rotation = "abc" ],
      [ PlainInput EXCEPT !.width = "abc" ],
      [ PlainInput EXCEPT !.height = "abc", !.rotation = "90" ],
      [ PlainInput EXCEPT !.pshape = "abc" ],
      [ PlainInput EXCEPT !.pshape = "0:1" ],
      [ PlainInput EXCEPT !.pshape = "4:3" ],
      [ PlainInput EXCEPT !.pshape = "0:1", !.build = [ use_pil |-> FALSE, fail |-> "none" ] ] }

\* a rotation turned the other way
NewRotAdded(rot, by) == (rot + by) % 360

\* rot = (rot - int(query["Rotation"][0])) % 360
NewRot(rot, by) == (rot - by) % 360

\* send_file: the cache it leaves and what it did
SendFileResult(i, cache) ==
    IF i.format \notin { "none", "image/jpeg" }
    THEN [ mc |-> cache, out |-> Error(415, FALSE, FALSE) ]
    ELSE
    LET has == CacheHas(cache, i.path)
        c1 == IF has THEN CacheTouch(cache, i.path) ELSE cache
        attrs0 == IF has THEN CacheObj(cache, i.path) ELSE NewAttrs
        rot0 == IF has THEN attrs0.rotation ELSE 0
    IN
    IF i.rotation # "none" /\ i.rotation \notin IntStrings
    THEN [ mc |-> c1, out |-> Escaped(FALSE) ]
    ELSE
    LET rot == IF i.rotation = "none" THEN rot0 ELSE NewRot(rot0, ParseInt(i.rotation))
        attrs1 == IF i.rotation # "none" /\ has
                  THEN Rotated(attrs0, rot)
                  ELSE attrs0
    IN
    IF i.width \notin IntStrings \/ i.height \notin IntStrings
    THEN [ mc |-> SetObj(c1, i.path, attrs1), out |-> Escaped(FALSE) ]
    ELSE
    LET width == ParseInt(i.width)
        height == ParseInt(i.height)
    IN
    IF has /\ attrs1.thumb # NoImage /\ FastSize(width, height)
    THEN [ mc |-> SetObj(c1, i.path, attrs1), out |-> Sent(attrs1.thumb, TRUE, FALSE) ]
    ELSE
    LET r == IF i.build.use_pil
             THEN get_image_pil(i.path, width, height, i.pshape, rot, attrs1, has, i.build.fail)
             ELSE get_image_ffmpeg(i.path, width, height, i.pshape, rot, attrs1, has,
                                   i.build.fail)
    IN
    CASE r.st = "raise" -> [ mc |-> SetObj(c1, i.path, r.attrs), out |-> Escaped(r.opened) ]
      [] r.st = "fail" -> [ mc |-> SetObj(c1, i.path, r.attrs), out |-> Error(404, TRUE, r.opened) ]
      [] r.st = "ok" ->
            [ mc |-> SetObj(c1, i.path,
                            IF has /\ ThumbSize(width, height)
                            THEN [ r.attrs EXCEPT !.thumb = r.img ]
                            ELSE r.attrs),
              out |-> Sent(r.img, FALSE, r.opened) ]

ThumbOf(cache, path) == IF CacheHas(cache, path) THEN CacheObj(cache, path).thumb ELSE NoImage

\* use_pil is set once, when the module is imported: every request of a run
\* is built the same way
PhotoSendFile(i) ==
    /\ mode = "photo"
    /\ preq.n < MaxPhotoReqs
    /\ preq.active => i.build.use_pil = preq.in.build.use_pil
    /\ preq' = [ active |-> TRUE, n |-> preq.n + 1, in |-> i,
                 hadAttrs |-> CacheHas(mc, i.path), thumbBefore |-> ThumbOf(mc, i.path),
                 rotBefore |-> IF CacheHas(mc, i.path) THEN CacheObj(mc, i.path).rotation ELSE 0,
                 rall |-> IF i.rotation \in IntStrings
                          THEN [ preq.rall EXCEPT ![i.path] = (@ + ParseInt(i.rotation)) % 360 ]
                          ELSE preq.rall,
                 rapp |-> IF /\ i.rotation \in IntStrings
                             /\ i.format \in { "none", "image/jpeg" }
                             /\ CacheHas(mc, i.path)
                          THEN [ preq.rapp EXCEPT ![i.path] = (@ + ParseInt(i.rotation)) % 360 ]
                          ELSE preq.rapp ]
    /\ LET r == SendFileResult(i, mc)
       IN  mc' = r.mc /\ pout' = r.out
    /\ UNCHANGED << mode, getVars, fsVars, cop, cuse, videoVars, pureVars, containerVars, detailsVars, httpVars >>

\* media_data, called for each file of a listing
MediaData(path) ==
    /\ mode = "photo"
    /\ preq.n < MaxPhotoReqs
    /\ mc' = IF CacheHas(mc, path) THEN CacheTouch(mc, path)
             ELSE CachePut(mc, MediaCacheSize, path, NewAttrs, now)
    /\ UNCHANGED << mode, getVars, fsVars, cop, cuse, videoVars, photoVars, pureVars, containerVars, detailsVars, httpVars >>

InitPhoto ==
    /\ mode = "photo"
    /\ InitGet

NextPhoto ==
    \/ \E i \in PhotoInputs \cup OddInputs : PhotoSendFile(i)
    \/ \E path \in PhotoPaths : MediaData(path)

SpecPhoto == InitPhoto /\ [][NextPhoto]_vars

(***************************************************************************)
(* Properties of Photo.send_file (SpecPhoto).                              *)
(***************************************************************************)
\* C9: whatever fails while a photo is rendered, malformed Width, Height,
\* PixelShape or Rotation included, send_file logs a message and answers 404;
\* no exception leaves send_file.
C9_RenderFailureIsLogged404 ==
    /\ pout.status # "raised"
    /\ (pout.status = "error" /\ pout.code # 415) => (pout.code = 404 /\ pout.logged)

NetRot(path, rotation, use_pil) ==
    IF use_pil /\ ExifRot(path) # NoExif THEN (rotation + ExifRot(path)) % 360 ELSE rotation

C12_SameSeedSameOrder ==
    \A i, j \in 1..Len(calls) :
        (/\ i < j
         /\ calls[i].q = calls[j].q
         /\ calls[i].q.sortorder = "Random"
         /\ calls[i].q.seed # << >>)
        => calls[i].res.files = calls[j].res.files

\* C13: once a Random sort with a RandomStart has shuffled and pinned: if the
\* start names an entry of the list, that entry is first and the others follow
\* in the order the shuffle gave them, with no warning; if it names none, the
\* order is the shuffle's and a warning is logged.
C13_StartIsPinnedFirst ==
    \A t \in Threads :
        (th[t].pc = "setkey" /\ th[t].q.sortorder = "Random" /\ th[t].q.start # << >>)
        => LET f == lists[th[t].fl].files
               name == StartPath(th[t].q.start)
           IN  IF \E k \in 1..Len(th[t].shuf) : th[t].shuf[k].name = name
               THEN /\ f[1].name = name
                    /\ Tail(f) = SelectSeq(th[t].shuf, LAMBDA x : x.name # name)
                    /\ ~th[t].warn
               ELSE f = th[t].shuf /\ th[t].warn

\* the case of C13: the shuffle left the start item last of three
C13_Witness ==
    /\ th[1].pc = "setkey" /\ th[1].q.sortorder = "Random"
    /\ th[1].q.start = << "/", "c", "/", "b" >>
    /\ Len(th[1].shuf) = 3
    /\ th[1].shuf[3].name = << "p", "/", "b" >>
    /\ lists[th[1].fl].files[1].name = << "p", "/", "b" >>

\* C14: once a sort that is not Random is done, the list holds the entries
\* the walk found; under Type every directory comes before every file and each
\* of the two groups is in ascending name order; under Normal, or an order the
\* code does not know, all entries are in ascending name order.
C14_TypeAndNameOrder ==
    \A t \in Threads :
        (th[t].pc = "setkey" /\ th[t].q.sortorder \in { "Type", "Normal", "Sideways" })
        => LET f == lists[th[t].fl].files
               b == lists[th[t].fl].built
           IN  /\ Len(f) = Len(b)
               /\ { f[i] : i \in 1..Len(f) } = { b[i] : i \in 1..Len(b) }
               /\ \A i, j \in 1..Len(f) :
                     i < j =>
                        IF th[t].q.sortorder = "Type"
                        THEN /\ f[i].isdir \/ ~f[j].isdir
                             /\ f[i].isdir = f[j].isdir => LexLess(f[i].name, f[j].name)
                        ELSE LexLess(f[i].name, f[j].name)

\* the case of C14: a file whose name sorts before the directory's comes after
\* it under Type
C14_Witness ==
    /\ th[1].pc = "setkey" /\ th[1].q.sortorder = "Type"
    /\ Len(lists[th[1].fl].files) = 3
    /\ lists[th[1].fl].files[1] = FileData(A, TRUE)
    /\ lists[th[1].fl].files[2] = FileData(Join(P, "0"), FALSE)
    /\ lists[th[1].fl].files[3] = FileData(Join(P, "b"), FALSE)

\* the entries of a sequence, and whether sub holds entries of seq in seq's order
Entries(seq) == { seq[k] : k \in 1..Len(seq) }

InOrder(sub, seq) ==
    \A i, j \in 1..Len(sub) :
        i < j => \E a, b \in 1..Len(seq) : a < b /\ seq[a] = sub[i] /\ seq[b] = sub[j]

\* C20: get_files returns, in the list's order, only the entries that are not
\* directories when Filter lacks "folder" (with or without "image"), only the
\* directories when it has "folder" and not "image", and every entry when it
\* has both or when there is no Filter.
C20_FilterByType ==
    \A k \in 1..Len(calls) :
        LET q == calls[k].q
            all == calls[k].order
            got == calls[k].res.files
            want == IF ~q.hasfilter THEN Entries(all)
                    ELSE IF "folder" \notin q.filter THEN { x \in Entries(all) : ~x.isdir }
                    ELSE IF "image" \notin q.filter THEN { x \in Entries(all) : x.isdir }
                    ELSE Entries(all)
        IN  /\ Entries(got) = want
            /\ Len(got) = Cardinality(want)
            /\ InOrder(got, all)
            /\ calls[k].res.total = Len(got)

\* the cases of C20: of a listing with a directory and two files, Filter with
\* "image" alone returned the files and Filter with "folder" alone the directory
C20_Witness ==
    /\ Len(calls) = 2
    /\ calls[1].q.hasfilter /\ calls[1].q.filter = { "image" }
    /\ Len(calls[1].order) = 3 /\ Len(calls[1].res.files) = 2
    /\ \A x \in Entries(calls[1].res.files) : ~x.isdir
    /\ calls[2].q.hasfilter /\ calls[2].q.filter = { "folder" }
    /\ Len(calls[2].order) = 3 /\ Len(calls[2].res.files) = 1
    /\ calls[2].res.files[1].isdir

(***************************************************************************)
(* Properties of the listing caches, over sequential requests (SpecSeq).   *)
(***************************************************************************)
LastCall == calls[Len(calls)]

\* C1: two Recurse=No get_files calls in a row for the same query, with the
\* directory's mtime the same at both, return the same entries, and the second
\* does not walk the filesystem again.
C1_SecondCallIsCacheHit ==
    (/\ Len(calls) = 2
     /\ calls[1].q = calls[2].q
     /\ ~calls[2].q.recurse
     /\ calls[1].updated = calls[2].updated)
    => (~calls[2].walked /\ calls[2].res.files = calls[1].res.files)

\* C2: a Recurse=No get_files for a directory that dir_cache holds with a put
\* time earlier than the directory's mtime walks again, replaces the dir_cache
\* entry by the new list, and leaves in recurse_cache no entry for the directory
\* or an ancestor of it whose put time is earlier than that mtime.
C2_StaleDirIsRewalked ==
    calls # << >> =>
        LET c == LastCall
        IN  (~c.q.recurse /\ c.pre.dcHas /\ c.updated > c.pre.dcMtime)
            => /\ c.walked
               /\ c.post.dcHas
               /\ c.post.dcObj = c.fl
               /\ c.post.dcObj # c.pre.dcObj
               /\ c.post.dcMtime >= c.updated
               /\ \A i \in 1..Len(c.pre.rc) :
                     (Below(c.q.path, c.pre.rc[i].key) /\ c.pre.rc[i].mtime < c.updated)
                     => \A j \in 1..Len(c.post.rc) : c.post.rc[j].key # c.pre.rc[i].key

\* the case of C2: a stale dir_cache entry and a stale ancestor in recurse_cache
C2_Witness ==
    /\ calls # << >>
    /\ ~LastCall.q.recurse /\ LastCall.pre.dcHas /\ LastCall.updated > LastCall.pre.dcMtime
    /\ LastCall.q.path = A
    /\ \E i \in 1..Len(LastCall.pre.rc) :
          LastCall.pre.rc[i].key = P /\ LastCall.pre.rc[i].mtime < LastCall.updated
    /\ LastCall.walked

\* C3: a Recurse=Yes get_files for a path whose recurse_cache entry was built
\* before a directory at or below the path changed walks again.
C3_StaleRecursiveIsRewalked ==
    calls # << >> =>
        ((LastCall.q.recurse /\ LastCall.q.path \in LastCall.pre.stale) => LastCall.walked)

(***************************************************************************)
(* Properties of the locks, over concurrent requests (SpecConc).           *)
(***************************************************************************)
\* C5: no two threads are inside an operation of the same cache at once.
C5_CacheOpsAtomic ==
    \A t1, t2 \in Threads :
        (t1 # t2 /\ InsideCache(t1) # "none") => InsideCache(t2) # InsideCache(t1)

\* between filelist.acquire() and filelist.release()
CritPCs == { "sortdecide", "rand_acquire", "seed", "shuffle", "pin", "sort", "setkey",
             "paginate", "release" }

AllQueries == SeqQueries \cup ConcQueries

\* the list's flags tell the order of its files: as walked while unsorted, and
\* afterwards as its memoized key orders them
Consistent(l) ==
    IF l.unsorted THEN l.files = l.built /\ l.sortby = NoKey
    ELSE \A q \in AllQueries :
            SortKey(q) = l.sortby =>
                IF q.sortorder = "Random"
                THEN NameIdx(l.built, StartPath(q.start)) # 0
                        => l.files[1].name = StartPath(q.start)
                ELSE l.files = SortFiles(q.sortorder, l.built)

\* C6: the list's lock is held from the sort decision until last_start is
\* stored: two threads are never between acquire and release of the same list,
\* and a thread that gets the lock, like any state with the lock free, finds the
\* list in the order its flags tell.
C6_ListLockHeldAcrossSort ==
    /\ \A t1, t2 \in Threads :
          (t1 # t2 /\ th[t1].pc \in CritPCs /\ th[t2].pc \in CritPCs) => th[t1].fl # th[t2].fl
    /\ \A t \in Threads :
          /\ th[t].pc \in CritPCs => lists[th[t].fl].owner = t
          /\ th[t].pc = "sortdecide" => Consistent(lists[th[t].fl])
          /\ th[t].pc = "release" => lists[th[t].fl].last_start = th[t].res.start
    /\ \A i \in ListIds : lists[i].owner = 0 => Consistent(lists[i])

\* the case of C6: one thread has re-ordered the files and not yet set the key,
\* another waits for the same list
C6_Witness ==
    \E t1, t2 \in Threads :
        /\ t1 # t2
        /\ th[t1].fl = th[t2].fl
        /\ th[t1].pc = "setkey"
        /\ th[t2].pc = "acquire"
        /\ ~Consistent(lists[th[t1].fl])


\* the positions of get_files between random_lock.acquire() and release()
RandPCs == { "seed", "shuffle" }

\* C21: at most one thread is between the acquire and the release of the
\* random lock, and it holds that lock; a thread about to shuffle after
\* seeding finds the generator as its seed left it, and the order a seeded
\* shuffle produced is the shuffle of the order it found, from that seed.
C21_SeedAndShuffleAtomic ==
    /\ \A t1, t2 \in Threads :
          (th[t1].pc \in RandPCs /\ th[t2].pc \in RandPCs) => t1 = t2
    /\ \A t \in Threads :
          /\ th[t].pc \in RandPCs => randOwner = t
          /\ (th[t].pc = "shuffle" /\ th[t].q.seed # << >>) => rng = SeedState(th[t].q.seed)
          /\ (th[t].q.sortorder = "Random" /\ th[t].q.seed # << >>)
                => th[t].shuf = Shuffle(th[t].shufin, SeedState(th[t].q.seed)).files

\* the case of C21: a thread has seeded the generator and is about to shuffle
\* two files while another Random request waits for the random lock
C21_Witness ==
    \E t1, t2 \in Threads :
        /\ th[t1].pc = "shuffle" /\ th[t1].q.seed # << >>
        /\ Len(lists[th[t1].fl].files) >= 2
        /\ th[t2].pc = "rand_acquire"

(***************************************************************************)
(* Photo.new_size on its own: every call is one step, its arguments drawn  *)
(* from the sizes of images and the boxes a request can name.              *)
(***************************************************************************)
\* pic.size's width and height
SourceDims == { 1, 49, 290, 340, 500, 1000 }

\* int(query["Width"][0]), int(query["Height"][0]); 0 when the parameter is absent
BoxDims == { 0, 1, 50, 200 }

NewSizeCall(oldw, oldh, width, height, pshape) ==
    /\ mode = "size"
    /\ calc = NoCalc
    /\ calc' = [ fn |-> "new_size", oldw |-> oldw, oldh |-> oldh, width |-> width,
                 height |-> height, pshape |-> pshape,
                 out |-> new_size(oldw, oldh, width, height, pshape) ]
    /\ UNCHANGED << mode, getVars, fsVars, cacheVars, videoVars, photoVars, containerVars, detailsVars, httpVars >>

InitSize ==
    /\ mode = "size"
    /\ InitGet

NextSize ==
    \E oldw, oldh \in SourceDims : \E width, height \in BoxDims : \E pshape \in PixelShapes :
        NewSizeCall(oldw, oldh, width, height, pshape)

SpecSize == InitSize /\ [][NextSize]_vars

\* C15: with PixelShape 1:1, new_size takes the source's dimension for a
\* requested dimension of zero, and returns a size with one side of that box
\* and the other the proportional length truncated to an integer; 1000x500
\* asked at Width=200, Height=0 comes back as 200x100.
C15_NewSizeKeepsAspect ==
    (calc.fn = "new_size" /\ calc.pshape = "1:1") =>
        LET w0 == IF calc.width = 0 THEN calc.oldw ELSE calc.width
            h0 == IF calc.height = 0 THEN calc.oldh ELSE calc.height
            w == calc.out.w
            h == calc.out.h
        IN  /\ calc.out.ok
            /\ \/ /\ w = w0
                  /\ h * calc.oldw <= w0 * calc.oldh
                  /\ w0 * calc.oldh < (h + 1) * calc.oldw
               \/ /\ h = h0
                  /\ w * calc.oldh <= h0 * calc.oldw
                  /\ h0 * calc.oldw < (w + 1) * calc.oldh
            /\ w <= w0 /\ h <= h0
            /\ (calc.width = 0 /\ calc.height = 0) => (w = calc.oldw /\ h = calc.oldh)
            /\ (calc.oldw = 1000 /\ calc.oldh = 500 /\ calc.width = 200 /\ calc.height = 0)
                  => (w = 200 /\ h = 100)

\* the case of C15: 1000x500 asked at Width=200, Height=0, PixelShape 1:1
C15_Witness ==
    /\ calc.fn = "new_size" /\ calc.pshape = "1:1"
    /\ calc.oldw = 1000 /\ calc.oldh = 500 /\ calc.width = 200 /\ calc.height = 0
    /\ calc.out = [ ok |-> TRUE, w |-> 200, h |-> 100 ]

(***************************************************************************)
(* The rotation of a rendering on its own: send_file's arithmetic on the   *)
(* stored rotation and the request's Rotation, then parse_exif on the      *)
(* file's orientation tag, as get_image_pil calls it.                      *)
(***************************************************************************)
Orients == 0..9 \cup { NoOrient }

\* the item of media_data_cache for the path, when there is one
ExifAttrs ==
    { [ NewAttrs EXCEPT !.rotation = r ] : r \in { 0, 90, 180, 270 } } \cup
    { [ NewAttrs EXCEPT !.rotation = r, !.hasexifrot = TRUE, !.exifrot = e ] :
        r \in { 0, 90, 180, 270 }, e \in { 0, 90, 180, 0 - 90 } }

RenderRotation(orient, has, attrs, rotation) ==
    /\ mode = "exif"
    /\ calc = NoCalc
    /\ LET rot0 == IF has THEN attrs.rotation ELSE 0
           rot == IF rotation = "none" THEN rot0 ELSE (rot0 - ParseInt(rotation)) % 360
           attrs1 == IF rotation # "none" /\ has THEN Rotated(attrs, rot) ELSE attrs
           r == parse_exif(orient, rot, attrs1, has)
       IN  calc' = [ fn |-> "parse_exif", orient |-> orient, has |-> has, attrs |-> attrs,
                     rotation |-> rotation, rot |-> rot, out |-> r.rot, after |-> r.attrs ]
    /\ UNCHANGED << mode, getVars, fsVars, cacheVars, videoVars, photoVars, containerVars, detailsVars, httpVars >>

InitExif ==
    /\ mode = "exif"
    /\ InitGet

NextExif ==
    \E orient \in Orients : \E rotation \in { "none", "90", "200" } :
        \/ RenderRotation(orient, FALSE, NewAttrs, rotation)
        \/ \E attrs \in ExifAttrs : RenderRotation(orient, TRUE, attrs, rotation)

SpecExif == InitExif /\ [][NextExif]_vars

\* the degrees the claim's table gives for an orientation tag
C16_Contribution(orient) ==
    CASE orient \in { 1, 2 } -> 0
      [] orient \in { 3, 4 } -> 180
      [] orient \in { 5, 8 } -> 90
      [] orient \in { 6, 7 } -> 0 - 90

\* C16 as stated: orientation 1,2 adds 0 degrees, 3,4 adds 180, 5,8 adds 90
\* and 6,7 adds -90 to the rotation modulo 360, and a photo with tag 6 and
\* stored rotation 0 requested with Rotation=90 is rendered at rotation 0.
C16_Tag6Rotation90IsNet0 ==
    calc.fn = "parse_exif" =>
        /\ (calc.orient \in 1..8 /\ ~(calc.has /\ calc.attrs.hasexifrot))
              => calc.out = (calc.rot + C16_Contribution(calc.orient)) % 360
        /\ (calc.orient = 6 /\ calc.has /\ calc.attrs.rotation = 0 /\ ~calc.attrs.hasexifrot
              /\ calc.rotation = "90") => calc.out = 0

\* C16, amended: the table's degrees are added modulo 360 to the rotation
\* send_file passes, which is the stored rotation minus the request's
\* Rotation; a photo with tag 6 and stored rotation 0 requested with
\* Rotation=90 is rendered at rotation 180.
C16_ExifAddsToPassedRotation ==
    calc.fn = "parse_exif" =>
        /\ (calc.orient \in 1..8 /\ ~(calc.has /\ calc.attrs.hasexifrot))
              => calc.out = (calc.rot + C16_Contribution(calc.orient)) % 360
        /\ calc.rot = ( (IF calc.has THEN calc.attrs.rotation ELSE 0)
                        - (IF calc.rotation = "none" THEN 0 ELSE ParseInt(calc.rotation)) ) % 360
        /\ (calc.orient = 6 /\ calc.has /\ calc.attrs.rotation = 0 /\ ~calc.attrs.hasexifrot
              /\ calc.rotation = "90") => (calc.rot = 270 /\ calc.out = 180)

\* the case of C16: tag 6, stored rotation 0, Rotation=90
C16_Witness ==
    /\ calc.fn = "parse_exif"
    /\ calc.orient = 6 /\ calc.has /\ calc.attrs.rotation = 0 /\ ~calc.attrs.hasexifrot
    /\ calc.rotation = "90"
    /\ calc.out = 180 /\ calc.after.exifrot = 0 - 90

(***************************************************************************)
(* Photo.QueryContainer, one request at a time on an unchanging            *)
(* filesystem: the check of the query, get_files step by step, then        *)
(* media_data for every file returned and the XML answer.                  *)
(***************************************************************************)
MaxContainerReqs == 3

\* badattrs without "PixelShape"
BadAttrsShort == { "Rotation", "Width", "Height" }

\* badattrs = ("Rotation", "Width", "Height", "PixelShape")
BadAttrs == { "Rotation", "Width", "Height", "PixelShape" }

ContainerQueries ==
    { NoQuery, [ NoQuery EXCEPT !.recurse = TRUE ],
      [ NoQuery EXCEPT !.sortorder = "Random", !.seed = << "s" >>, !.start = << "/", "c", "/", "b" >> ] }

\* map(partial(self.media_data, ...), t.files)
RECURSIVE MediaDataAll(_, _, _)
MediaDataAll(cache, files, t) ==
    IF files = << >> THEN cache
    ELSE LET name == Head(files).name
         IN  MediaDataAll(IF CacheHas(cache, name) THEN CacheTouch(cache, name)
                          ELSE CachePut(cache, MediaCacheSize, name, NewAttrs, t),
                          Tail(files), t)

\* QueryContainer up to its answer or to the call of get_files; attrs are the
\* parameters of the query beside those get_files reads, found is whether
\* get_local_path gives a path
QueryContainer(t, attrs, found, q) ==
    /\ mode = "container"
    /\ th[t].pc = "idle"
    /\ cont.pc # "get_files"
    /\ cont.n < MaxContainerReqs
    /\ LET req == [ NoCont EXCEPT !.n = cont.n + 1, !.attrs = attrs, !.found = found,
                                  !.pre = [ dc |-> dc, rc |-> rc, mc |-> mc, lists |-> lists,
                                            ncalls |-> ncalls ] ]
       IN  IF attrs \cap BadAttrs # {} \/ ~found
           THEN /\ cont' = [ req EXCEPT !.pc = "done", !.status = 404 ]
                /\ UNCHANGED << th, ncalls >>
           ELSE /\ cont' = [ req EXCEPT !.pc = "get_files" ]
                /\ th' = [ th EXCEPT ![t] = Enter(q) ]
                /\ ncalls' = ncalls + 1
    /\ UNCHANGED << mode, fsVars, dc, rc, dcLock, rcLock, lists, rng, randOwner, calls, rcStale,
                    cacheVars, videoVars, photoVars, pureVars, detailsVars, httpVars >>

\* get_files returns; t.files = list(map(media_data, t.files)); send_xml
ContainerSend(t) ==
    /\ mode = "container"
    /\ th[t].pc = "return"
    /\ cont.pc = "get_files"
    /\ th' = [ th EXCEPT ![t] = IdleThread ]
    /\ lists' = Sweep(lists, dc, rc, th')
    /\ mc' = MediaDataAll(mc, th[t].res.files, now)
    /\ cont' = [ cont EXCEPT !.pc = "done", !.status = 200 ]
    /\ UNCHANGED << mode, fsVars, dc, rc, dcLock, rcLock, rng, randOwner, ncalls, calls, rcStale,
                    cop, cuse, videoVars, photoVars, pureVars, detailsVars, httpVars >>

InitContainer ==
    /\ mode = "container"
    /\ InitGet

\* del rc[p] needs a directory changed after a recursive listing: not here
NextContainer ==
    \/ \E attrs \in SUBSET { "Rotation", "Width", "Height", "PixelShape", "AnchorOffset" } :
          \E found \in BOOLEAN : \E q \in ContainerQueries : QueryContainer(1, attrs, found, q)
    \/ GetMtime(1) \/ EnterOp(1) \/ DcHas(1) \/ DcMtime(1) \/ DcGet(1)
    \/ RcIter(1) \/ RcLoop(1) \/ RcMtime(1) \/ RcHas(1) \/ RcGet(1)
    \/ Truth(1) \/ Walk(1) \/ Put(1) \/ Acquire(1) \/ SortDecide(1)
    \/ RandAcquire(1) \/ Seed(1) \/ ShuffleStep(1) \/ Pin(1) \/ SortStep(1) \/ SetKey(1)
    \/ Paginate(1) \/ Release(1) \/ ContainerSend(1)

SpecContainer == InitContainer /\ [][NextContainer]_vars

\* C17: a QueryContainer carrying Rotation, Width, Height or PixelShape is
\* answered 404 at once: it never reaches get_files, and when it is answered
\* dir_cache, recurse_cache and media_data_cache are what they were, recency
\* included, no list was built and no get_files was started.
C17_BadAttrsShortCircuit ==
    (cont.n > 0 /\ cont.attrs \cap { "Rotation", "Width", "Height", "PixelShape" } # {}) =>
        /\ cont.pc = "done" /\ cont.status = 404
        /\ dc = cont.pre.dc /\ rc = cont.pre.rc /\ mc = cont.pre.mc
        /\ lists = cont.pre.lists
        /\ ncalls = cont.pre.ncalls
        /\ th[1] = IdleThread

\* the case of C17: a request with PixelShape alone, refused after earlier
\* requests filled the three caches
C17_Witness ==
    /\ cont.pc = "done" /\ cont.attrs = { "PixelShape" } /\ cont.found
    /\ cont.status = 404
    /\ dc # << >> /\ rc # << >> /\ mc # << >>

(***************************************************************************)
(* Video.tivo_header on its own.  The bytes it joins are kept as parts:    *)
(* each part's length, and the values struct.pack is given (for a chunk:   *)
(* the bytes of details, then the zero bytes after them).                  *)
(***************************************************************************)
\* len(details)
HeaderDetailLens == 0..1100

\* struct.calcsize(">HHHLH") and struct.calcsize(">LLHH")
PackLen == 12

Part(part, len, f) == [ part |-> part, len |-> len, f |-> f ]

tivo_header(mime, ld) ==
    LET flag == IF mime = "video/x-tivo-mpeg-ts" THEN 45 ELSE 13
        zeros == pad(ld, 4) + 4
        lc == ld + zeros
        blocklen == lc * 2 + 40
        padding == pad(blocklen, 1024)
    IN  << Part("magic", 4, << 84, 105, 86, 111 >>),
           Part("header", PackLen, << 4, flag, 0, padding + blocklen, 2 >>),
           Part("chunkhead", PackLen, << lc + 12, ld, 1, 0 >>),
           Part("chunk", lc, << ld, zeros >>),
           Part("chunkhead", PackLen, << lc + 12, ld, 2, 0 >>),
           Part("chunk", lc, << ld, zeros >>),
           Part("padding", padding, << >>) >>

TivoHeaderCall(mime, ld) ==
    /\ mode = "header"
    /\ calc = NoCalc
    /\ calc' = [ fn |-> "tivo_header", mime |-> mime, ld |-> ld, out |-> tivo_header(mime, ld) ]
    /\ UNCHANGED << mode, getVars, fsVars, cacheVars, videoVars, photoVars, containerVars, detailsVars, httpVars >>

InitHeader ==
    /\ mode = "header"
    /\ InitGet

NextHeader == \E mime \in Mimes : \E ld \in HeaderDetailLens : TivoHeaderCall(mime, ld)

SpecHeader == InitHeader /\ [][NextHeader]_vars

RECURSIVE TotalLen(_)
TotalLen(parts) == IF parts = << >> THEN 0 ELSE Head(parts).len + TotalLen(Tail(parts))

\* C19: whatever the length of the details, tivo_header's result starts with
\* the bytes "TiVo", is a multiple of 1024 bytes long, carries its own length
\* in the totalLength field, and holds two equal chunks, each the details
\* followed by the zero bytes that bring them to a multiple of 4 and 4 more,
\* each announced by a length field of the chunk's length plus 12.
C19_TivoHeaderLayout ==
    calc.fn = "tivo_header" =>
        LET h == calc.out
            p == CHOOSE n \in 0..3 : (calc.ld + n) % 4 = 0
        IN  /\ h[1].len = 4 /\ h[1].f = << 84, 105, 86, 111 >>
            /\ TotalLen(h) % 1024 = 0
            /\ TotalLen(h) > 0
            /\ h[2].f[4] = TotalLen(h)
            /\ TotalLen(h) = TivoHeaderLen(calc.ld)
            /\ h[4] = h[6]
            /\ h[4].part = "chunk" /\ h[4].f = << calc.ld, p + 4 >> /\ h[4].len = calc.ld + p + 4
            /\ h[3].f[1] = h[4].len + 12
            /\ h[5].f[1] = h[6].len + 12
            /\ h[7].part = "padding" /\ h[7].len < 1024

\* the case of C19: details of 1001 bytes, padded by 3 and 4 zero bytes,
\* in a header of three blocks of 1024
C19_Witness ==
    /\ calc.fn = "tivo_header" /\ calc.ld = 1001
    /\ calc.out[4].len = 1008
    /\ calc.out[3].f[1] = 1020
    /\ calc.out[2].f[4] = 3072
    /\ calc.out[7].len = 1016

(***************************************************************************)
(* The rotation media_data_cache stores (SpecPhoto).                       *)
(***************************************************************************)
\* the rotation stored for a path that has an entry
RotationOf(path) == CacheObj(mc, path).rotation

\* the last request, and the listings since, left the rotation stored for
\* its path as it was
RotationKept ==
    preq.hadAttrs => RotationOf(preq.in.path) = preq.rotBefore

\* C32 as stated: the rotation stored for a path is in 0..359 and is minus
\* the sum of all the Rotation parameters send_file received for that path,
\* modulo 360; a request with no Rotation parameter leaves it as it was.
C32_RotationIsMinusAllReceived ==
    /\ \A path \in PhotoPaths :
          CacheHas(mc, path)
             => /\ RotationOf(path) \in 0..359
                /\ RotationOf(path) = (0 - preq.rall[path]) % 360
    /\ (preq.active /\ preq.in.rotation = "none") => RotationKept

\* C32, amended: the rotation stored for a path is in 0..359 and is minus the
\* sum, modulo 360, of the Rotation parameters of the requests that passed
\* the Format test while the path had its entry (0 for an entry just made);
\* a request with no Rotation parameter, whether its render succeeds or
\* fails, and a request with a Rotation that is not a number leave it as it
\* was.
C32_RotationIsMinusApplied ==
    /\ \A path \in PhotoPaths :
          CacheHas(mc, path)
             => /\ RotationOf(path) \in 0..359
                /\ RotationOf(path) = (0 - preq.rapp[path]) % 360
    /\ (preq.active /\ preq.in.rotation \notin IntStrings) => RotationKept

\* the case of C32: of three requests with Rotation=90 the first came before
\* the photo had its entry and the other two after: 180 is stored
C32_Witness ==
    /\ preq.active /\ preq.n = 3 /\ preq.in.path = "x.jpg"
    /\ preq.hadAttrs /\ preq.in.rotation = "90"
    /\ preq.rapp["x.jpg"] = 180 /\ preq.rall["x.jpg"] = 270
    /\ RotationOf("x.jpg") = 180


(***************************************************************************)
\* the request just answered left a thumbnail it rendered itself
StoredThumb ==
    /\ preq.active /\ pout.status = "sent" /\ ~pout.fast
    /\ ThumbOf(mc, preq.in.path) # NoImage
    /\ ThumbOf(mc, preq.in.path) = pout.body

\* the rotation a render of the entry gives: the one stored, turned by the
\* EXIF orientation kept with it
StoredRot(attrs) ==
    IF attrs.hasexifrot THEN (attrs.rotation + attrs.exifrot) % 360 ELSE attrs.rotation

\* every thumbnail held is turned as its entry's stored rotation asks
ThumbsAtStoredRot ==
    \A path \in PhotoPaths :
        ThumbOf(mc, path) # NoImage
           => ThumbOf(mc, path).rot = StoredRot(CacheObj(mc, path))

\* C30: a thumbnail enters media_data_cache only from a render that succeeded
\* for a request with Width and Height both in (0,100), and every thumbnail
\* held has the rotation stored with it; so what the fast path sends was
\* rendered for such a request.
C30_ThumbsComeFromThumbRequests ==
    /\ StoredThumb
          => FastSize(ParseInt(preq.in.width), ParseInt(preq.in.height))
    /\ ThumbsAtStoredRot


(***************************************************************************)
\* the box asked for, a missing side being the source's
BoxW == IF calc.width = 0 THEN calc.oldw ELSE calc.width

BoxH == IF calc.height = 0 THEN calc.oldh ELSE calc.height

\* the box is narrower than the source as the pixel shape corrects it
BoxNarrower ==
    BoxW * (calc.oldh * ParsePShape(calc.pshape)[1])
        < (calc.oldw * ParsePShape(calc.pshape)[2]) * BoxH

\* C25 as stated: new_size returns a size; where the box is narrower than the
\* corrected source the height is the box's and the width is shrunk, otherwise
\* the width is the box's and the height is shrunk; neither exceeds the box.
C25_NarrowerShrinksWidth ==
    (calc.fn = "new_size" /\ calc.out.ok)
        => /\ IF BoxNarrower
              THEN calc.out.h = BoxH /\ calc.out.w <= BoxW
              ELSE calc.out.w = BoxW /\ calc.out.h <= BoxH
           /\ calc.out.w <= BoxW /\ calc.out.h <= BoxH

\* C25, amended: where the box is narrower than the corrected source the
\* width is the box's and the height is shrunk, otherwise the height is the
\* box's and the width is shrunk; neither exceeds the box.
C25_NarrowerShrinksHeight ==
    (calc.fn = "new_size" /\ calc.out.ok)
        => /\ IF BoxNarrower
              THEN calc.out.w = BoxW /\ calc.out.h <= BoxH
              ELSE calc.out.h = BoxH /\ calc.out.w <= BoxW
           /\ calc.out.w <= BoxW /\ calc.out.h <= BoxH

\* the case of C25: a 1000x500 source with 4:3 pixels in a 50x200 box, which
\* is narrower, comes out 50 wide and less than 200 high
C25_Witness ==
    /\ calc.fn = "new_size" /\ calc.out.ok
    /\ calc.oldw = 1000 /\ calc.oldh = 500 /\ calc.pshape = "4:3"
    /\ calc.width = 50 /\ calc.height = 200
    /\ BoxNarrower
    /\ calc.out.w = 50 /\ calc.out.h < 200 /\ calc.out.h > 0

(***************************************************************************)
(* The log of a video transfer (SpecVideo).                                *)
(***************************************************************************)
\* C24: when send_file has ended, by returning or by an exception that left
\* it, every "Start sending" line of the log is followed by a "Done sending"
\* line: no I/O error of the body transfer leaves send_file.
C24_EveryStartHasItsDone ==
    (vreq.active /\ vreq.pc \in { "done", "raised" })
        => \A i \in 1..Len(vlog) :
              vlog[i] = LogStart
                 => \E j \in (i + 1)..Len(vlog) : vlog[j].ev = "Done sending"

\* the bytes of the body written to the client
RECURSIVE BodyBytes(_)
BodyBytes(w) ==
    IF w = << >> THEN 0
    ELSE (IF Head(w).ev = "body" THEN Head(w).v ELSE 0) + BodyBytes(Tail(w))

\* the errors logged, less the one f.seek raises by itself when it is given a
\* position before the start of the file: the errors the file and the client
\* caused
IOErrors ==
    Cardinality({ k \in 1..Len(vlog) : vlog[k] = LogError })
        - (IF vreq.offset < 0 THEN 1 ELSE 0)

\* C29: a transfer of a byte-compatible file that is valid, has returned and
\* met no error of the file or the client has written as many body bytes as
\* its Content-Length header announced, whatever the Range offset.
C29_BodyMatchesContentLength ==
    (vreq.active /\ vreq.pc = "done" /\ vreq.compatible /\ vreq.valid /\ IOErrors = 0)
        => HeaderValues("Content-Length") = { BodyBytes(wire) }

(***************************************************************************)
(* The memoized sort key of a list (SpecSort).                             *)
(***************************************************************************)
\* the entries are in the order a SortOrder other than Random asks for
InKeyOrder(order, f) ==
    \A i, j \in 1..Len(f) :
        i < j =>
           CASE order = "Type"           -> /\ f[i].isdir \/ ~f[j].isdir
                                            /\ f[i].isdir = f[j].isdir => ~LexLess(f[j].name, f[i].name)
             [] order = "CaptureDate"    -> f[i].cdate <= f[j].cdate
             [] order = "LastChangeDate" -> f[i].mdate <= f[j].mdate
             [] OTHER                    -> ~LexLess(f[j].name, f[i].name)

\* C23: when a get_files call has done its work on the list and is about to
\* release it, the list's sortby is the key of the request (SortOrder, with
\* seed and start appended for Random), unsorted is false, and the entries
\* are in that key's order: sorted as the SortOrder asks, or, for Random, the
\* shuffle this call made with the start entry moved to the front; a call
\* that found the list not dirty and under its own key left the entries as
\* they were; a list is marked unsorted from the walk until its first sort is
\* done, and the call that finds it so sorts it.
C23_KeyFlagAndOrderAgree ==
    \A t \in Threads :
        th[t].pc = "release"
        => LET l == lists[th[t].fl]
               q == th[t].q
           IN  /\ l.sortby = SortKey(q)
               /\ ~l.unsorted
               /\ q.sortorder # "Random" => InKeyOrder(q.sortorder, l.files)
               /\ (q.sortorder = "Random" /\ th[t].resort)
                     => l.files = PinStart(th[t].shuf, q.start)
               /\ ~th[t].resort => l.files = th[t].held
               /\ th[t].dirty => th[t].resort
               /\ \A id \in ListIds :
                     lists[id].owner = 0 => (lists[id].unsorted <=> lists[id].sortby = NoKey)

\* the case of C23: a second call under the key the list already has finds
\* three entries in an order that is not the walk's and leaves them so
C23_Witness ==
    /\ th[1].pc = "release"
    /\ ~th[1].resort /\ ~th[1].walked
    /\ th[1].q.sortorder = "Type"
    /\ Len(th[1].held) = 3
    /\ th[1].held # lists[th[1].fl].built
    /\ lists[th[1].fl].files = th[1].held

(***************************************************************************)
(* Random requests whose seed and start differ (SpecKey): the calls of      *)
(* SpecSort with seeds that end as a start begins.                          *)
(***************************************************************************)
KeyQueries ==
    { [ NoQuery EXCEPT !.sortorder = "Random", !.seed = sd, !.start = st ] :
         sd \in { << "s" >>, << "s", "/", "c", "/", "b" >> },
         st \in { << >>, << "/", "c", "/", "b" >> } }
        \cup OrderQueries

NextKey ==
    \/ \E q \in KeyQueries : Call(1, q)
    \/ GetMtime(1) \/ EnterOp(1) \/ DcHas(1) \/ DcMtime(1) \/ DcGet(1)
    \/ RcIter(1) \/ RcLoop(1) \/ RcMtime(1) \/ RcHas(1) \/ RcGet(1)
    \/ Truth(1) \/ Walk(1) \/ Put(1) \/ Acquire(1) \/ SortDecide(1)
    \/ RandAcquire(1) \/ Seed(1) \/ ShuffleStep(1) \/ Pin(1) \/ SortStep(1) \/ SetKey(1)
    \/ Paginate(1) \/ Release(1) \/ Return(1)

SpecKey == InitSort /\ [][NextKey]_vars

\* C26: of two Random calls made one after the other on the same list, the
\* second differing from the first in RandomSeed or in RandomStart, the keys
\* differ and the second call shuffles again.
C26_DistinctPairsDistinctKeys ==
    \A j \in 2..Len(calls) :
        LET a == calls[j - 1]
            b == calls[j]
        IN  (/\ a.q.sortorder = "Random" /\ b.q.sortorder = "Random"
             /\ a.fl = b.fl
             /\ << a.q.seed, a.q.start >> # << b.q.seed, b.q.start >>)
            => (SortKey(a.q) # SortKey(b.q) /\ b.resort)

(***************************************************************************)
(* The locks of get_files when a request fails (SpecLock): the calls of    *)
(* SpecConc and one whose pagination raises.                               *)
(***************************************************************************)
LockQueries == ConcQueries \cup { [ NoQuery EXCEPT !.count = BadCount ] }

NextLock ==
    \/ \E t \in Threads : \E q \in LockQueries :
          /\ \A u \in Threads : u < t => th[u].pc # "idle"
          /\ Call(t, q)
    \/ \E t \in Threads : Step(t)
    \/ (\A t \in Threads : th[t].pc = "idle") /\ \E d \in Dirs : Touch(d)

SpecLock == InitConc /\ [][NextLock]_vars

\* C27: a get_files call that an exception has ended holds no list lock and
\* does not hold the random lock: what it acquired it has released.
C27_FailedCallHoldsNoLock ==
    \A t \in Threads :
        th[t].pc = "raised"
        => /\ \A id \in ListIds : lists[id].owner # t
           /\ randOwner # t

(***************************************************************************)
(* A membership test and the read that follows it (SpecRace): three calls, *)
(* recursive or not, so that a list cached by a first call can be read by  *)
(* a second while a third drops it.                                        *)
(***************************************************************************)
RaceQueries == { RandomQuery, [ NoQuery EXCEPT !.recurse = TRUE ] }

InitRace == mode = "race" /\ InitGet

NextRace ==
    \/ \E t \in Threads : \E q \in RaceQueries :
          /\ \A u \in Threads : u < t => th[u].pc # "idle"
          /\ Call(t, q)
    \/ \E t \in Threads : Step(t)
    \/ (\A t \in Threads : th[t].pc = "idle") /\ \E d \in Dirs : Touch(d)

SpecRace == InitRace /\ [][NextRace]_vars

\* C28: no get_files call that found its path in dir_cache or recurse_cache
\* fails in the read of that key that follows, whatever the other threads did
\* to the cache in between: no call is ended by an exception.
C28_TestThenReadSucceeds ==
    \A t \in Threads : th[t].pc # "raised"

(***************************************************************************)
(* The entries of a cached list (SpecSort).                                *)
(***************************************************************************)
\* the lists dir_cache and recurse_cache hold
CachedLists ==
    { dc[i].obj : i \in 1..Len(dc) } \cup { rc[i].obj : i \in 1..Len(rc) }

\* f holds each entry of b once and nothing else
PermutationOf(f, b) ==
    /\ Len(f) = Len(b)
    /\ \A x \in { b[i] : i \in 1..Len(b) } :
          Cardinality({ i \in 1..Len(f) : f[i] = x })
             = Cardinality({ i \in 1..Len(b) : b[i] = x })

\* C31: in every state the entries of each list that dir_cache or
\* recurse_cache holds are a permutation of what the walk that built the list
\* returned; a call that has filtered and paginated has left the list's
\* entries as they were before, only its own copy being cut.
C31_CachedListIsPermutationOfWalk ==
    /\ \A id \in CachedLists : PermutationOf(lists[id].files, lists[id].built)
    /\ \A t \in Threads :
          th[t].pc = "release"
          => /\ PermutationOf(lists[th[t].fl].files, lists[th[t].fl].built)
             /\ \A k \in 1..Len(th[t].res.files) :
                   \E i \in 1..Len(lists[th[t].fl].files) :
                      lists[th[t].fl].files[i] = th[t].res.files[k]

\* the case of C31: a list of three entries, shuffled and pinned into another
\* order than the walk's, then sorted by Type and filtered: the caller gets
\* fewer entries than the list keeps
C31_Witness ==
    /\ th[1].pc = "release"
    /\ th[1].fl \in CachedLists
    /\ Len(lists[th[1].fl].files) = 3
    /\ lists[th[1].fl].files # lists[th[1].fl].built
    /\ th[1].q.hasfilter
    /\ Len(th[1].res.files) < 3 /\ Len(th[1].res.files) > 0
    /\ \E j \in 1..Len(calls) : calls[j].q.sortorder = "Random" /\ calls[j].fl = th[1].fl

(***************************************************************************)
(* The order of the locks and the progress of get_files (SpecConc).        *)
(***************************************************************************)
\* the random lock is held only by a thread that holds its list's lock; a
\* cache's lock is held only inside __getitem__ or __setitem__; a thread
\* waiting for a list's lock holds no lock at all
LockOrder ==
    \A t \in Threads :
        /\ randOwner = t => lists[th[t].fl].owner = t
        /\ (dcLock = t \/ rcLock = t) => (th[t].pc \in LockedOps /\ th[t].inop)
        /\ th[t].pc = "acquire"
              => /\ dcLock # t /\ rcLock # t /\ randOwner # t
                 /\ \A id \in ListIds : lists[id].owner # t

\* the thread that holds the lock thread t is waiting for, 0 if t waits for
\* none
WaitsFor(t) ==
    CASE th[t].pc = "acquire" /\ ~LockFree(lists[th[t].fl].owner, t) -> lists[th[t].fl].owner
      [] th[t].pc = "rand_acquire" /\ ~RandFree -> randOwner
      [] th[t].pc \in LockedOps /\ ~th[t].inop /\ OpCache(t) = "dc" /\ ~LockFree(dcLock, t)
            -> dcLock
      [] th[t].pc \in LockedOps /\ ~th[t].inop /\ OpCache(t) = "rc" /\ ~LockFree(rcLock, t)
            -> rcLock
      [] OTHER -> 0

\* C33: get_files calls made at once never deadlock: the locks are always
\* taken in the one order, and a thread that waits for a lock waits for a
\* thread that is inside get_files and waits for none, so that the holder goes
\* on to its release and the waiting call to its end.
C33_NoDeadlock ==
    /\ LockOrder
    /\ \A t \in Threads :
          WaitsFor(t) # 0
             => /\ th[WaitsFor(t)].pc \notin { "idle", "raised", "return" }
                /\ WaitsFor(WaitsFor(t)) = 0

\* the case of C33: a thread waits for the lock of a list whose holder holds
\* the random lock as well
C33_Witness ==
    /\ th[1].pc = "acquire"
    /\ lists[th[1].fl].owner = 2
    /\ randOwner = 2

(***************************************************************************)
(* Video.get_details_xml on the class attribute tvbus_cache, called by     *)
(* request threads at once.  Each operation on the cache has a beginning   *)
(* and an end, as the cache operations of get_files have.                  *)
(***************************************************************************)
MaxDetailsCalls == 3
MaxHttpReqs == 2

\* tvbus_cache = LRUCache(1)
TvbusCacheSize == 1

\* (tsn, file_path)
DetailsKeys == { << "t", "f" >>, << "t", "g" >> }

DetailsOps == { "tv_has", "tv_get", "tv_put" }

SetDetails(t, new) == tv' = [ tv EXCEPT !.th[t] = new ]

\* get_details_xml is entered
DetailsCall(t, key) ==
    /\ mode = "details"
    /\ tv.th[t].pc = "idle"
    /\ tv.n < MaxDetailsCalls
    /\ tv' = [ tv EXCEPT !.th[t] = [ IdleDetails EXCEPT !.pc = "tv_has", !.key = key ],
                         !.n = @ + 1 ]
    /\ UNCHANGED << mode, getVars, fsVars, cacheVars, videoVars, photoVars, pureVars, containerVars, httpVars >>

\* an operation on tvbus_cache begins: LRUCache takes no lock
DetailsEnter(t) ==
    /\ mode = "details"
    /\ tv.th[t].pc \in DetailsOps /\ ~tv.th[t].inop
    /\ SetDetails(t, [ tv.th[t] EXCEPT !.inop = TRUE ])
    /\ UNCHANGED << mode, getVars, fsVars, cacheVars, videoVars, photoVars, pureVars, containerVars, httpVars >>

\* if (tsn, file_path) in self.tvbus_cache
DetailsHas(t) ==
    /\ mode = "details"
    /\ tv.th[t].pc = "tv_has" /\ tv.th[t].inop
    /\ SetDetails(t, [ tv.th[t] EXCEPT !.inop = FALSE,
                                       !.pc = IF CacheHas(tv.cache, tv.th[t].key)
                                              THEN "tv_get" ELSE "tv_put" ])
    /\ UNCHANGED << mode, getVars, fsVars, cacheVars, videoVars, photoVars, pureVars, containerVars, httpVars >>

\* details = self.tvbus_cache[(tsn, file_path)]; return details
DetailsGet(t) ==
    /\ mode = "details"
    /\ tv.th[t].pc = "tv_get" /\ tv.th[t].inop
    /\ IF CacheHas(tv.cache, tv.th[t].key)
       THEN tv' = [ tv EXCEPT !.cache = CacheTouch(@, tv.th[t].key),
                              !.th[t] = [ IdleDetails EXCEPT !.out = "details" ] ]
       ELSE tv' = [ tv EXCEPT !.th[t] = [ IdleDetails EXCEPT !.out = "KeyError" ] ]
    /\ UNCHANGED << mode, getVars, fsVars, cacheVars, videoVars, photoVars, pureVars, containerVars, httpVars >>

\* the details are built from the metadata; self.tvbus_cache[...] = details;
\* return details
DetailsPut(t) ==
    /\ mode = "details"
    /\ tv.th[t].pc = "tv_put" /\ tv.th[t].inop
    /\ tv' = [ tv EXCEPT !.cache = CachePut(@, TvbusCacheSize, tv.th[t].key, "details", 0),
                         !.th[t] = [ IdleDetails EXCEPT !.out = "details" ] ]
    /\ UNCHANGED << mode, getVars, fsVars, cacheVars, videoVars, photoVars, pureVars, containerVars, httpVars >>

InitDetails ==
    /\ mode = "details"
    /\ InitGet

NextDetails ==
    \E t \in Threads :
        \/ \E key \in DetailsKeys : DetailsCall(t, key)
        \/ DetailsEnter(t)
        \/ DetailsHas(t)
        \/ DetailsGet(t)
        \/ DetailsPut(t)

SpecDetails == InitDetails /\ [][NextDetails]_vars

\* C22: tvbus_cache excludes concurrent operations: no two threads are inside
\* a membership test, a read or an insert on it at the same time.
C22_TvbusOpsExclusive ==
    \A t1, t2 \in Threads : (tv.th[t1].inop /\ tv.th[t2].inop) => t1 = t2


(***************************************************************************)
(* TivoHTTPHandler: do_GET and do_POST (SpecHttp).  A string is a sequence *)
(* of tokens, a token being a run of characters the code never splits; a   *)
(* query is parse_qs' dictionary, each key with its first value.           *)
(***************************************************************************)
DotDot == << ".", "." >>
TiVoConnect == << "/", "TiVoConnect" >>

\* urllib.parse.unquote_plus, token by token
UnquoteToken(c) ==
    CASE c = "%2E" -> "."
      [] c = "%2F" -> "/"
      [] c = "+" -> " "
      [] OTHER -> c
UnquotePlus(s) == [ k \in 1..Len(s) |-> UnquoteToken(s[k]) ]

\* [x for x in s.split("/") if x]
RECURSIVE SplitParts(_, _, _)
SplitParts(s, cur, acc) ==
    IF s = << >> THEN IF cur = << >> THEN acc ELSE Append(acc, cur)
    ELSE IF Head(s) = "/"
         THEN SplitParts(Tail(s), << >>, IF cur = << >> THEN acc ELSE Append(acc, cur))
         ELSE SplitParts(Tail(s), Append(cur, Head(s)), acc)
SplitPath(s) == SplitParts(s, << >>, << >>)

\* s.split("/")[0]
BasePath(s) ==
    LET hits == { k \in 1..Len(s) : s[k] = "/" }
    IN  IF hits = {} THEN s
        ELSE SubSeq(s, 1, (CHOOSE h \in hits : \A g \in hits : h <= g) - 1)

\* ".." in splitpath
HasDotDot(splitpath) == \E k \in 1..Len(splitpath) : splitpath[k] = DotDot

\* the configuration: share s is a photo share, share e names a plugin type
\* that cannot be loaded; TiVo A is in the configuration
ShareNames == { << "s" >>, << "e" >> }
ShareType(name) == IF name = << "s" >> THEN "photo" ELSE "error"
IsTsnInConfig(tsn) == tsn = "A"
IsTsCapable(tsn) == tsn = "A"
\* hasattr(GetPlugin(type), attr): the photo plugin has these methods, the
\* Error object returned for a type that cannot be loaded has none
HasAttr(type, attr) ==
    type = "photo" /\ attr \in { << "QueryContainer" >>, << "QueryItem" >>, << "send_file" >> }
\* os.path.isfile of the "content" file a path names
ContentFiles == { << << "c" >> >> }
IsContentFile(splitpath) == splitpath \in ContentFiles

\* what a handler did: the methods it reached and the responses it wrote
HttpOut(trace, resp) == [ trace |-> trace, resp |-> resp, raised |-> FALSE ]
HttpRaise(trace) == [ trace |-> trace, resp |-> << >>, raised |-> TRUE ]
HttpThen(first, o) == [ o EXCEPT !.trace = first \o o.trace ]

\* TivoHTTPHandler.authorize without its 403
AuthorizeOpen(tsn, ip, allowed) == TRUE
Authorize(tsn, ip, allowed) ==
    \/ allowed = << >>
    \/ tsn # "" /\ IsTsnInConfig(tsn)
    \/ \E k \in 1..Len(allowed) : StartsWith(ip, allowed[k])

\* TivoHTTPHandler.do_command: TRUE when a plugin method was called
DoCommand(command, target) ==
    /\ target \in ShareNames
    /\ HasAttr(ShareType(target), command)

Unsupported == HttpOut(<< "unsupported" >>, << "404 unsupported" >>)
PluginCommand == HttpOut(<< "do_command", "plugin command" >>, << "plugin command" >>)

RootContainer(beacon) ==
    IF beacon THEN HttpOut(<< "root_container" >>, << "root container" >>)
    ELSE HttpRaise(<< "root_container" >>)

HandleQuery(query, tsn, beacon) ==
    HttpThen(<< "handle_query" >>,
        IF "Command" \notin DOMAIN query THEN Unsupported
        ELSE LET command == query["Command"]
             IN  IF /\ command = << "QueryContainer" >>
                    /\ ("Container" \notin DOMAIN query \/ query["Container"] = << "/" >>)
                 THEN RootContainer(beacon)
                 ELSE IF "Container" \in DOMAIN query
                 THEN IF DoCommand(command, BasePath(query["Container"]))
                      THEN PluginCommand
                      ELSE HttpThen(<< "do_command" >>, Unsupported)
                 ELSE IF command = << "QueryItem" >>
                 THEN LET path == IF "Url" \in DOMAIN query THEN query["Url"] ELSE << >>
                          splitpath == SplitPath(UnquotePlus(path))
                      IN  IF splitpath # << >> /\ ~HasDotDot(splitpath)
                          THEN IF DoCommand(command, splitpath[1])
                               THEN PluginCommand
                               ELSE HttpThen(<< "do_command" >>, Unsupported)
                          ELSE Unsupported
                 ELSE IF /\ command = << "QueryFormats" >>
                         /\ "SourceFormat" \in DOMAIN query
                         /\ StartsWith(query["SourceFormat"], << "video" >>)
                 THEN IF IsTsCapable(tsn)
                      THEN HttpOut(<< "send_xml" >>, << "formats ts" >>)
                      ELSE HttpOut(<< "send_xml" >>, << "formats" >>)
                 ELSE IF command = << "QueryServer" >>
                 THEN HttpOut(<< "send_xml" >>, << "server info" >>)
                 ELSE IF command \in { << "FlushServer" >>, << "ResetServer" >> }
                 THEN HttpOut(<< >>, << "empty 200" >>)
                 ELSE Unsupported)

HandleFile(splitpath) ==
    HttpThen(<< "handle_file" >>,
        IF ~HasDotDot(splitpath)
        THEN IF splitpath[1] \in ShareNames
             THEN IF HasAttr(ShareType(splitpath[1]), << "send_file" >>)
                  THEN HttpOut(<< "send_file" >>, << "send_file" >>)
                  ELSE HttpOut(<< >>, << >>)
             ELSE IF IsContentFile(splitpath)
                  THEN HttpOut(<< "send_content_file" >>, << "content file" >>)
                  ELSE HttpOut(<< >>, << "404" >>)
        ELSE HttpOut(<< >>, << "404" >>))

Forbidden == HttpOut(<< >>, << "403" >>)

\* one request: who sends it, the configuration read while it is handled, and
\* its path and query after do_GET's split at "?" and parse_qs
HttpAnswered(i, o, tivos) ==
    hs' = [ hs EXCEPT !.n = @ + 1, !.tivosBefore = hs.tivos, !.tivos = tivos, !.req = i,
                      !.authorized = Authorize(i.tsn, i.ip, i.allowed), !.withBeacon = hs.beacon,
                      !.trace = o.trace, !.resp = o.resp, !.raised = o.raised ]

DoGET(i) ==
    /\ mode = "http"
    /\ hs.n < MaxHttpReqs
    /\ i.method = "GET"
    /\ IF ~Authorize(i.tsn, i.ip, i.allowed) THEN HttpAnswered(i, Forbidden, hs.tivos)
       ELSE IF /\ i.tsn # ""
               /\ (~i.found \/ i.tsn \in hs.tivos)
               /\ i.tsn \notin hs.tivos
               /\ ~hs.beacon
       THEN HttpAnswered(i, HttpRaise(<< >>), hs.tivos)
       ELSE LET tivos == IF i.tsn # "" /\ (~i.found \/ i.tsn \in hs.tivos)
                         THEN hs.tivos \cup { i.tsn } ELSE hs.tivos
                splitpath == SplitPath(UnquotePlus(i.path))
            IN  IF i.path = TiVoConnect
                THEN HttpAnswered(i, HandleQuery(i.query, i.tsn, hs.beacon), tivos)
                ELSE IF splitpath # << >>
                THEN HttpAnswered(i, HandleFile(splitpath), tivos)
                ELSE HttpAnswered(i, HttpOut(<< "infopage" >>, << "info page" >>), tivos)
    /\ UNCHANGED << mode, getVars, fsVars, cacheVars, videoVars, photoVars, pureVars,
                    containerVars, detailsVars >>

DoPOST(i) ==
    /\ mode = "http"
    /\ hs.n < MaxHttpReqs
    /\ i.method = "POST"
    /\ IF ~Authorize(i.tsn, i.ip, i.allowed) THEN HttpAnswered(i, Forbidden, hs.tivos)
       ELSE HttpAnswered(i, HandleQuery(i.query, i.tsn, hs.beacon), hs.tivos)
    /\ UNCHANGED << mode, getVars, fsVars, cacheVars, videoVars, photoVars, pureVars,
                    containerVars, detailsVars >>

\* TivoHTTPServer.set_beacon
SetBeacon ==
    /\ mode = "http"
    /\ ~hs.beacon
    /\ hs' = [ hs EXCEPT !.beacon = TRUE ]
    /\ UNCHANGED << mode, getVars, fsVars, cacheVars, videoVars, photoVars, pureVars,
                    containerVars, detailsVars >>

\* the requests tried
HttpTsns == { "", "A", "B" }
HttpIps == { << "10", ".", "5" >>, << "192", ".", "7" >> }
HttpAllowed == { << >>, << << "10", "." >> >> }
FilePaths ==
    { << "/" >>,
      << "/", "s", "/", "x" >>,
      << "/", "s", "/", ".", ".", "/", "x" >>,
      << "/", "s", "/", "%2E", "%2E", "/", "x" >>,
      << "/", "s", "%2F", ".", ".", "%2F", "x" >>,
      << "/", "s", "/", ".", ".", "x" >>,
      << "/", ".", ".", "/", "c" >>,
      << "/", "e", "/", "x" >>,
      << "/", "c" >>,
      << "/", "n", "/", "x" >> }
HttpCommands ==
    { << "QueryContainer" >>, << "QueryItem" >>, << "QueryFormats" >>, << "QueryServer" >>,
      << "FlushServer" >>, << "ResetServer" >>, << "Other" >> }
HttpQuery(keys, command, container, url, format) ==
    [ k \in keys |-> CASE k = "Command" -> command
                       [] k = "Container" -> container
                       [] k = "Url" -> url
                       [] OTHER -> format ]
HttpQueries ==
    { HttpQuery({}, << >>, << >>, << >>, << >>) }
    \cup { HttpQuery({ "Command" }, c, << >>, << >>, << >>) : c \in HttpCommands }
    \cup { HttpQuery({ "Command", "Container" }, c, k, << >>, << >>) :
             c \in { << "QueryContainer" >>, << "QueryItem" >>, << "Other" >> },
             k \in { << "/" >>, << "s" >>, << "s", "/", "x" >>, << "e" >>, << "n" >> } }
    \cup { HttpQuery({ "Command", "Url" }, << "QueryItem" >>, << >>, u, << >>) :
             u \in { << "/", "s", "/", "x" >>, << "/", "s", "/", ".", ".", "/", "x" >>,
                     << "/", "s", "/", "%2E", "%2E", "/", "x" >>, << "/", "e", "/", "x" >>,
                     << "/" >> } }
    \cup { HttpQuery({ "Command", "Container", "Url" }, << "QueryItem" >>, << "s" >>, u, << >>) :
             u \in { << "/", "s", "/", "x" >>, << "/", "s", "/", ".", ".", "/", "x" >> } }
    \cup { HttpQuery({ "Command", "SourceFormat" }, << "QueryFormats" >>, << >>, << >>, f) :
             f \in { << "video", "/", "x" >>, << "image", "/", "x" >> } }
PostQueries ==
    { q \in HttpQueries :
        \/ DOMAIN q = {}
        \/ DOMAIN q = { "Command", "Container", "Url" }
        \/ DOMAIN q = { "Command" } /\ q["Command"] \in { << "QueryServer" >>, << "QueryContainer" >> }
        \/ DOMAIN q = { "Command", "Container" } /\ q["Container"] \in { << "s" >>, << "e" >> } }
HttpTargets ==
    { << "GET", p, HttpQuery({}, << >>, << >>, << >>, << >>) >> : p \in FilePaths }
    \cup { << "GET", TiVoConnect, q >> : q \in HttpQueries }
    \cup { << "POST", TiVoConnect, q >> : q \in PostQueries }
\* who asks, and the configuration read while the request is handled
HttpClients ==
    { c \in [ tsn : HttpTsns, ip : HttpIps, allowed : HttpAllowed, found : BOOLEAN ] :
        /\ c.found => c.tsn = "B"
        /\ c.allowed = << >> => c.ip = << "192", ".", "7" >> }
HttpInputs ==
    { [ method |-> g[1], tsn |-> c.tsn, ip |-> c.ip, allowed |-> c.allowed, found |-> c.found,
        path |-> g[2], query |-> g[3] ] : g \in HttpTargets, c \in HttpClients }

InitHttp ==
    /\ mode = "http"
    /\ InitGet

NextHttp ==
    \/ \E i \in HttpInputs : DoGET(i)
    \/ \E i \in HttpInputs : DoPOST(i)
    \/ SetBeacon

SpecHttp == InitHttp /\ [][NextHttp]_vars


\* the last request handled, and what its handler reached
HttpHandled == hs.req.method # "none"
Reached(what) == \E k \in 1..Len(hs.trace) : hs.trace[k] = what
ReqSplitPath == SplitPath(UnquotePlus(hs.req.path))
ReqUrlParts == SplitPath(UnquotePlus(hs.req.query["Url"]))

\* a file request with a ".." component is answered 404 and reaches neither a
\* plugin's send_file nor send_content_file
DotDotFileGets404 ==
    (Reached("handle_file") /\ HasDotDot(ReqSplitPath)) =>
        /\ hs.resp = << "404" >>
        /\ ~Reached("send_file")
        /\ ~Reached("send_content_file")

\* a QueryItem whose Url has a ".." component reaches no plugin command
DotDotItemNotDispatched ==
    ( /\ Reached("handle_query")
      /\ "Command" \in DOMAIN hs.req.query
      /\ hs.req.query["Command"] = << "QueryItem" >>
      /\ "Url" \in DOMAIN hs.req.query
      /\ HasDotDot(ReqUrlParts) ) => ~Reached("plugin command")

\* C34: a file request whose path has a ".." component gets a 404 and reaches
\* neither a plugin's send_file nor the content file server, and a QueryItem
\* whose Url has a ".." component is dispatched to no plugin command.
C34_DotDotReachesNoPlugin == DotDotFileGets404 /\ DotDotItemNotDispatched

\* the client of the last request is not allowed: the list of allowed
\* clients is not empty, its TSN is not in the configuration and its address
\* starts with none of the allowed prefixes
NotAllowed ==
    /\ HttpHandled
    /\ hs.req.allowed # << >>
    /\ ~IsTsnInConfig(hs.req.tsn)
    /\ \A k \in 1..Len(hs.req.allowed) : ~StartsWith(hs.req.ip, hs.req.allowed[k])

\* C35: a GET or POST of a client that is not allowed gets one 403 and
\* nothing else: no query or file is handled, no plugin is called and TIVOS
\* is left as it was.
C35_NotAllowedGetsOnly403 ==
    NotAllowed =>
        /\ hs.resp = << "403" >>
        /\ hs.trace = << >>
        /\ ~hs.raised
        /\ hs.tivos = hs.tivosBefore

C35_Witness ==
    /\ NotAllowed
    /\ hs.req.method = "GET"
    /\ hs.req.tsn = "B"
    /\ ~hs.req.found
    /\ hs.withBeacon
    /\ hs.req.path = << "/", "s", "/", "x" >>
    /\ hs.tivosBefore = { "A" }
    /\ hs.resp = << "403" >>

\* C36: on a server whose beacon is set, every authorized request gets
\* exactly one response: a query one of the root container, a plugin command,
\* a formats list, the server info, the empty 200 or the 404 "unsupported"
\* page, and a file request one of a plugin's send_file, a content file or a
\* 404.
C36_ExactlyOneResponse ==
    (HttpHandled /\ hs.authorized /\ hs.withBeacon) =>
        /\ Len(hs.resp) = 1
        /\ Reached("handle_query") =>
               hs.resp[1] \in { "root container", "plugin command", "formats", "formats ts",
                                "server info", "empty 200", "404 unsupported" }
        /\ Reached("handle_file") =>
               hs.resp[1] \in { "send_file", "content file", "404" }

====
